---- MODULE Spec2Model ----
(***************************************************************************)
(* A model of the email-assistant backend: the two-tier summarization      *)
(* router (src/llm), the lowdb-backed summary cache (src/store), and the   *)
(* scheduled email check of the server and its routes that write the       *)
(* email list (src/server.js), and the provider adapters                   *)
(* (src/providers/outlook.js).                                             *)
(*                                                                         *)
(* Texts (subjects, bodies) are sequences of characters, each a string: an  *)
(* ASCII character is itself, another one is named by its code ("U+2022").  *)
(* JavaScript values that reach the router are records [type, fields]:     *)
(* type is "object", "null", "undefined" or "primitive", and fields maps   *)
(* the property names of an object to the JavaScript literal of each       *)
(* value, written as a string ("true", "'low'", "['a']").                  *)
(***************************************************************************)
EXTENDS Integers, Sequences, FiniteSets, TLC

VARIABLES
    \* ---- src/llm/summarizer.js: one call of summarizeEmail(subject, body)
    subject,      \* the call's subject argument
    body,         \* the call's body argument
    rpc,          \* where the call is: start, awaitMidRules, awaitMini, awaitMidModel, returned, thrown
    miniResult,   \* the local miniResult once callMini has resolved
    midResult,    \* what callMid resolved with (result / midResult in the code)
    result,       \* the object summarizeEmail returned (fields), once returned
    calls,        \* the tiers called so far, in call order
    outcomes,     \* what the remote capability did at each call, in call order
    \* ---- src/store/cache.js: calls of getCacheKey
    keyArgs,      \* the (provider, messageId, body) triples of two calls
    keyOut,       \* what each call returned ("none" before it returns)
    \* ---- src/store/cache.js: the store
    lowdbApi,     \* the lowdb the build resolves: "v5" (Low(adapter)) or "v6" (Low(adapter, defaultData))
    clock,        \* the position in Clock of the current instant
    file,         \* the document in cache.json (null: no file)
    dbData,       \* db.data
    ops,          \* the calls of the cache's functions, in call order, initDB first
    writer,       \* the state of steno's Writer under JSONFile
    \* ---- src/server.js
    users,        \* the users Map, in insertion order: each entry a user id and its accounts
    emailCache,   \* the emailCache Map: for each address whether it has an entry, and the emails
    runs,         \* the calls of checkAllUsersEmails, in call order
    deletes,      \* the POST /api/emails/delete requests, in arrival order
    \* ---- src/providers/outlook.js
    fetch,        \* the call of fetchUnreadOutlook or fetchUnreadGmail, and the request it awaits
    archive       \* the call of archiveOutlook or archiveGmail, and the request it awaits

routerVars == <<subject, body, rpc, miniResult, midResult, result, calls, outcomes>>

keyVars == <<keyArgs, keyOut>>

cacheVars == <<lowdbApi, clock, file, dbData, ops, writer>>

serverVars == <<users, emailCache, runs>>

requestVars == <<deletes>>

providerVars == <<fetch, archive>>

vars == <<routerVars, keyVars, cacheVars, serverVars, requestVars, providerVars>>

\* What the actions of one component leave alone.
notRouter == <<keyVars, cacheVars, serverVars, requestVars, providerVars>>
notKey == <<routerVars, cacheVars, serverVars, requestVars, providerVars>>
notCache == <<routerVars, keyVars, serverVars, requestVars, providerVars>>
notServer == <<routerVars, keyVars, cacheVars, requestVars, providerVars>>
notProvider == <<routerVars, keyVars, cacheVars, serverVars, requestVars>>
notRequests == <<routerVars, keyVars, cacheVars, providerVars>>

-----------------------------------------------------------------------------
(* Texts *)

\* The printable ASCII characters, from code 32 on ("U+0060" is the grave
\* accent).
Ascii ==
    << " ", "!", "\"", "#", "$", "%", "&", "'", "(", ")", "*", "+",
       ",", "-", ".", "/", "0", "1", "2", "3", "4", "5", "6", "7",
       "8", "9", ":", ";", "<", "=", ">", "?", "@", "A", "B", "C",
       "D", "E", "F", "G", "H", "I", "J", "K", "L", "M", "N", "O",
       "P", "Q", "R", "S", "T", "U", "V", "W", "X", "Y", "Z", "[",
       "\\", "]", "^", "_", "U+0060", "a", "b", "c", "d", "e", "f", "g",
       "h", "i", "j", "k", "l", "m", "n", "o", "p", "q", "r", "s",
       "t", "u", "v", "w", "x", "y", "z", "{", "|", "}", "~" >>

\* The name of the UTF-16 code unit u: a printable ASCII character is itself,
\* another code unit is named by its code in four hexadecimal digits.
CharOf(u) ==
    LET HexDigit == <<"0", "1", "2", "3", "4", "5", "6", "7", "8", "9", "A", "B", "C", "D", "E", "F">> IN
    IF u >= 32 /\ u <= 126 THEN Ascii[u - 31]
    ELSE IF u = 9 THEN "\t" ELSE IF u = 10 THEN "\n" ELSE IF u = 13 THEN "\r"
    ELSE "U+" \o HexDigit[(u \div 4096) + 1] \o HexDigit[((u \div 256) % 16) + 1]
              \o HexDigit[((u \div 16) % 16) + 1] \o HexDigit[(u % 16) + 1]

\* The code units of the code point cp: itself, or a surrogate pair.
CodeUnits(cp) ==
    IF cp < 65536 THEN <<CharOf(cp)>>
    ELSE <<CharOf(55296 + ((cp - 65536) \div 1024)), CharOf(56320 + ((cp - 65536) % 1024))>>

\* The code units of the characters the inputs are written with.
KnownUnits ==
    LET Known == {9, 10, 13} \cup (32..126)
                     \cup {11, 12, 160, 201, 233, 304, 317, 321, 775, 931, 5760, 8226, 8232, 8233,
                           8490, 55296, 55357, 56832, 65279, 65533}
    IN [c \in {CharOf(u) : u \in Known} |-> CHOOSE u \in Known : CharOf(u) = c]

\* The UTF-16 code unit of a character.
CodeUnit(c) ==
    IF c \in DOMAIN KnownUnits THEN KnownUnits[c]
    ELSE CHOOSE u \in 0..65535 : CharOf(u) = c

\* String.prototype.toLowerCase: the string is read by code points (a
\* surrogate pair is one), each code point is replaced by its lower-case
\* mapping of the Unicode Character Database (17.0), and the result is
\* written back in code units.  LowerRanges lists the simple mappings as
\* <<first, last, step, delta>>; U+0130 maps to the two characters i U+0307;
\* the capital sigma U+03A3 maps to the final sigma U+03C2 when a cased
\* letter precedes it and none follows it, case-ignorable characters
\* skipped on both sides, and to U+03C3 otherwise.  Cased lists the cased
\* code points that are not case-ignorable, CaseIgnorable the case-ignorable
\* ones, as <<first, last>>.
toLowerCase(t) ==
    LET LowerRanges == <<
            <<65, 90, 1, 32>>, <<192, 214, 1, 32>>, <<216, 222, 1, 32>>,
            <<256, 302, 2, 1>>, <<306, 310, 2, 1>>, <<313, 327, 2, 1>>,
            <<330, 374, 2, 1>>, <<376, 376, 1, -121>>, <<377, 381, 2, 1>>,
            <<385, 385, 1, 210>>, <<386, 388, 2, 1>>, <<390, 390, 1, 206>>,
            <<391, 391, 1, 1>>, <<393, 394, 1, 205>>, <<395, 395, 1, 1>>,
            <<398, 398, 1, 79>>, <<399, 399, 1, 202>>, <<400, 400, 1, 203>>,
            <<401, 401, 1, 1>>, <<403, 403, 1, 205>>, <<404, 404, 1, 207>>,
            <<406, 406, 1, 211>>, <<407, 407, 1, 209>>, <<408, 408, 1, 1>>,
            <<412, 412, 1, 211>>, <<413, 413, 1, 213>>, <<415, 415, 1,
            214>>, <<416, 420, 2, 1>>, <<422, 422, 1, 218>>, <<423, 423, 1,
            1>>, <<425, 425, 1, 218>>, <<428, 428, 1, 1>>, <<430, 430, 1,
            218>>, <<431, 431, 1, 1>>, <<433, 434, 1, 217>>, <<435, 437, 2,
            1>>, <<439, 439, 1, 219>>, <<440, 440, 1, 1>>, <<444, 444, 1,
            1>>, <<452, 452, 1, 2>>, <<453, 453, 1, 1>>, <<455, 455, 1, 2>>,
            <<456, 456, 1, 1>>, <<458, 458, 1, 2>>, <<459, 475, 2, 1>>,
            <<478, 494, 2, 1>>, <<497, 497, 1, 2>>, <<498, 500, 2, 1>>,
            <<502, 502, 1, -97>>, <<503, 503, 1, -56>>, <<504, 542, 2, 1>>,
            <<544, 544, 1, -130>>, <<546, 562, 2, 1>>, <<570, 570, 1,
            10795>>, <<571, 571, 1, 1>>, <<573, 573, 1, -163>>, <<574, 574,
            1, 10792>>, <<577, 577, 1, 1>>, <<579, 579, 1, -195>>, <<580,
            580, 1, 69>>, <<581, 581, 1, 71>>, <<582, 590, 2, 1>>, <<880,
            882, 2, 1>>, <<886, 886, 1, 1>>, <<895, 895, 1, 116>>, <<902,
            902, 1, 38>>, <<904, 906, 1, 37>>, <<908, 908, 1, 64>>, <<910,
            911, 1, 63>>, <<913, 929, 1, 32>>, <<931, 939, 1, 32>>, <<975,
            975, 1, 8>>, <<984, 1006, 2, 1>>, <<1012, 1012, 1, -60>>,
            <<1015, 1015, 1, 1>>, <<1017, 1017, 1, -7>>, <<1018, 1018, 1,
            1>>, <<1021, 1023, 1, -130>>, <<1024, 1039, 1, 80>>, <<1040,
            1071, 1, 32>>, <<1120, 1152, 2, 1>>, <<1162, 1214, 2, 1>>,
            <<1216, 1216, 1, 15>>, <<1217, 1229, 2, 1>>, <<1232, 1326, 2,
            1>>, <<1329, 1366, 1, 48>>, <<4256, 4293, 1, 7264>>, <<4295,
            4295, 1, 7264>>, <<4301, 4301, 1, 7264>>, <<5024, 5103, 1,
            38864>>, <<5104, 5109, 1, 8>>, <<7305, 7305, 1, 1>>, <<7312,
            7354, 1, -3008>>, <<7357, 7359, 1, -3008>>, <<7680, 7828, 2,
            1>>, <<7838, 7838, 1, -7615>>, <<7840, 7934, 2, 1>>, <<7944,
            7951, 1, -8>>, <<7960, 7965, 1, -8>>, <<7976, 7983, 1, -8>>,
            <<7992, 7999, 1, -8>>, <<8008, 8013, 1, -8>>, <<8025, 8031, 2,
            -8>>, <<8040, 8047, 1, -8>>, <<8072, 8079, 1, -8>>, <<8088,
            8095, 1, -8>>, <<8104, 8111, 1, -8>>, <<8120, 8121, 1, -8>>,
            <<8122, 8123, 1, -74>>, <<8124, 8124, 1, -9>>, <<8136, 8139, 1,
            -86>>, <<8140, 8140, 1, -9>>, <<8152, 8153, 1, -8>>, <<8154,
            8155, 1, -100>>, <<8168, 8169, 1, -8>>, <<8170, 8171, 1, -112>>,
            <<8172, 8172, 1, -7>>, <<8184, 8185, 1, -128>>, <<8186, 8187, 1,
            -126>>, <<8188, 8188, 1, -9>>, <<8486, 8486, 1, -7517>>, <<8490,
            8490, 1, -8383>>, <<8491, 8491, 1, -8262>>, <<8498, 8498, 1,
            28>>, <<8544, 8559, 1, 16>>, <<8579, 8579, 1, 1>>, <<9398, 9423,
            1, 26>>, <<11264, 11311, 1, 48>>, <<11360, 11360, 1, 1>>,
            <<11362, 11362, 1, -10743>>, <<11363, 11363, 1, -3814>>,
            <<11364, 11364, 1, -10727>>, <<11367, 11371, 2, 1>>, <<11373,
            11373, 1, -10780>>, <<11374, 11374, 1, -10749>>, <<11375, 11375,
            1, -10783>>, <<11376, 11376, 1, -10782>>, <<11378, 11378, 1,
            1>>, <<11381, 11381, 1, 1>>, <<11390, 11391, 1, -10815>>,
            <<11392, 11490, 2, 1>>, <<11499, 11501, 2, 1>>, <<11506, 11506,
            1, 1>>, <<42560, 42604, 2, 1>>, <<42624, 42650, 2, 1>>, <<42786,
            42798, 2, 1>>, <<42802, 42862, 2, 1>>, <<42873, 42875, 2, 1>>,
            <<42877, 42877, 1, -35332>>, <<42878, 42886, 2, 1>>, <<42891,
            42891, 1, 1>>, <<42893, 42893, 1, -42280>>, <<42896, 42898, 2,
            1>>, <<42902, 42920, 2, 1>>, <<42922, 42922, 1, -42308>>,
            <<42923, 42923, 1, -42319>>, <<42924, 42924, 1, -42315>>,
            <<42925, 42925, 1, -42305>>, <<42926, 42926, 1, -42308>>,
            <<42928, 42928, 1, -42258>>, <<42929, 42929, 1, -42282>>,
            <<42930, 42930, 1, -42261>>, <<42931, 42931, 1, 928>>, <<42932,
            42946, 2, 1>>, <<42948, 42948, 1, -48>>, <<42949, 42949, 1,
            -42307>>, <<42950, 42950, 1, -35384>>, <<42951, 42953, 2, 1>>,
            <<42955, 42955, 1, -42343>>, <<42956, 42970, 2, 1>>, <<42972,
            42972, 1, -42561>>, <<42997, 42997, 1, 1>>, <<65313, 65338, 1,
            32>>, <<66560, 66599, 1, 40>>, <<66736, 66771, 1, 40>>, <<66928,
            66938, 1, 39>>, <<66940, 66954, 1, 39>>, <<66956, 66962, 1,
            39>>, <<66964, 66965, 1, 39>>, <<68736, 68786, 1, 64>>, <<68944,
            68965, 1, 32>>, <<71840, 71871, 1, 32>>, <<93760, 93791, 1,
            32>>, <<93856, 93880, 1, 27>>, <<125184, 125217, 1, 34>> >>
        Cased == <<
            <<65, 90>>, <<97, 122>>, <<170, 170>>, <<181, 181>>, <<186,
            186>>, <<192, 214>>, <<216, 246>>, <<248, 442>>, <<444, 447>>,
            <<452, 659>>, <<662, 687>>, <<880, 883>>, <<886, 887>>, <<891,
            893>>, <<895, 895>>, <<902, 902>>, <<904, 906>>, <<908, 908>>,
            <<910, 929>>, <<931, 1013>>, <<1015, 1153>>, <<1162, 1327>>,
            <<1329, 1366>>, <<1376, 1416>>, <<4256, 4293>>, <<4295, 4295>>,
            <<4301, 4301>>, <<4304, 4346>>, <<4349, 4351>>, <<5024, 5109>>,
            <<5112, 5117>>, <<7296, 7306>>, <<7312, 7354>>, <<7357, 7359>>,
            <<7424, 7467>>, <<7531, 7543>>, <<7545, 7578>>, <<7680, 7957>>,
            <<7960, 7965>>, <<7968, 8005>>, <<8008, 8013>>, <<8016, 8023>>,
            <<8025, 8025>>, <<8027, 8027>>, <<8029, 8029>>, <<8031, 8061>>,
            <<8064, 8116>>, <<8118, 8124>>, <<8126, 8126>>, <<8130, 8132>>,
            <<8134, 8140>>, <<8144, 8147>>, <<8150, 8155>>, <<8160, 8172>>,
            <<8178, 8180>>, <<8182, 8188>>, <<8450, 8450>>, <<8455, 8455>>,
            <<8458, 8467>>, <<8469, 8469>>, <<8473, 8477>>, <<8484, 8484>>,
            <<8486, 8486>>, <<8488, 8488>>, <<8490, 8493>>, <<8495, 8500>>,
            <<8505, 8505>>, <<8508, 8511>>, <<8517, 8521>>, <<8526, 8526>>,
            <<8544, 8575>>, <<8579, 8580>>, <<9398, 9449>>, <<11264,
            11387>>, <<11390, 11492>>, <<11499, 11502>>, <<11506, 11507>>,
            <<11520, 11557>>, <<11559, 11559>>, <<11565, 11565>>, <<42560,
            42605>>, <<42624, 42651>>, <<42786, 42863>>, <<42865, 42887>>,
            <<42891, 42894>>, <<42896, 42972>>, <<42997, 42998>>, <<43002,
            43002>>, <<43824, 43866>>, <<43872, 43880>>, <<43888, 43967>>,
            <<64256, 64262>>, <<64275, 64279>>, <<65313, 65338>>, <<65345,
            65370>>, <<66560, 66639>>, <<66736, 66771>>, <<66776, 66811>>,
            <<66928, 66938>>, <<66940, 66954>>, <<66956, 66962>>, <<66964,
            66965>>, <<66967, 66977>>, <<66979, 66993>>, <<66995, 67001>>,
            <<67003, 67004>>, <<68736, 68786>>, <<68800, 68850>>, <<68944,
            68965>>, <<68976, 68997>>, <<71840, 71903>>, <<93760, 93823>>,
            <<93856, 93880>>, <<93883, 93907>>, <<119808, 119892>>,
            <<119894, 119964>>, <<119966, 119967>>, <<119970, 119970>>,
            <<119973, 119974>>, <<119977, 119980>>, <<119982, 119993>>,
            <<119995, 119995>>, <<119997, 120003>>, <<120005, 120069>>,
            <<120071, 120074>>, <<120077, 120084>>, <<120086, 120092>>,
            <<120094, 120121>>, <<120123, 120126>>, <<120128, 120132>>,
            <<120134, 120134>>, <<120138, 120144>>, <<120146, 120485>>,
            <<120488, 120512>>, <<120514, 120538>>, <<120540, 120570>>,
            <<120572, 120596>>, <<120598, 120628>>, <<120630, 120654>>,
            <<120656, 120686>>, <<120688, 120712>>, <<120714, 120744>>,
            <<120746, 120770>>, <<120772, 120779>>, <<122624, 122633>>,
            <<122635, 122654>>, <<122661, 122666>>, <<125184, 125251>>,
            <<127280, 127305>>, <<127312, 127337>>, <<127344, 127369>> >>
        CaseIgnorable == <<
            <<39, 39>>, <<46, 46>>, <<58, 58>>, <<94, 94>>, <<96, 96>>,
            <<168, 168>>, <<173, 173>>, <<175, 175>>, <<180, 180>>, <<183,
            184>>, <<688, 879>>, <<884, 885>>, <<890, 890>>, <<900, 901>>,
            <<903, 903>>, <<1155, 1161>>, <<1369, 1369>>, <<1375, 1375>>,
            <<1425, 1469>>, <<1471, 1471>>, <<1473, 1474>>, <<1476, 1477>>,
            <<1479, 1479>>, <<1524, 1524>>, <<1536, 1541>>, <<1552, 1562>>,
            <<1564, 1564>>, <<1600, 1600>>, <<1611, 1631>>, <<1648, 1648>>,
            <<1750, 1757>>, <<1759, 1768>>, <<1770, 1773>>, <<1807, 1807>>,
            <<1809, 1809>>, <<1840, 1866>>, <<1958, 1968>>, <<2027, 2037>>,
            <<2042, 2042>>, <<2045, 2045>>, <<2070, 2093>>, <<2137, 2139>>,
            <<2184, 2184>>, <<2192, 2193>>, <<2199, 2207>>, <<2249, 2306>>,
            <<2362, 2362>>, <<2364, 2364>>, <<2369, 2376>>, <<2381, 2381>>,
            <<2385, 2391>>, <<2402, 2403>>, <<2417, 2417>>, <<2433, 2433>>,
            <<2492, 2492>>, <<2497, 2500>>, <<2509, 2509>>, <<2530, 2531>>,
            <<2558, 2558>>, <<2561, 2562>>, <<2620, 2620>>, <<2625, 2626>>,
            <<2631, 2632>>, <<2635, 2637>>, <<2641, 2641>>, <<2672, 2673>>,
            <<2677, 2677>>, <<2689, 2690>>, <<2748, 2748>>, <<2753, 2757>>,
            <<2759, 2760>>, <<2765, 2765>>, <<2786, 2787>>, <<2810, 2815>>,
            <<2817, 2817>>, <<2876, 2876>>, <<2879, 2879>>, <<2881, 2884>>,
            <<2893, 2893>>, <<2901, 2902>>, <<2914, 2915>>, <<2946, 2946>>,
            <<3008, 3008>>, <<3021, 3021>>, <<3072, 3072>>, <<3076, 3076>>,
            <<3132, 3132>>, <<3134, 3136>>, <<3142, 3144>>, <<3146, 3149>>,
            <<3157, 3158>>, <<3170, 3171>>, <<3201, 3201>>, <<3260, 3260>>,
            <<3263, 3263>>, <<3270, 3270>>, <<3276, 3277>>, <<3298, 3299>>,
            <<3328, 3329>>, <<3387, 3388>>, <<3393, 3396>>, <<3405, 3405>>,
            <<3426, 3427>>, <<3457, 3457>>, <<3530, 3530>>, <<3538, 3540>>,
            <<3542, 3542>>, <<3633, 3633>>, <<3636, 3642>>, <<3654, 3662>>,
            <<3761, 3761>>, <<3764, 3772>>, <<3782, 3782>>, <<3784, 3790>>,
            <<3864, 3865>>, <<3893, 3893>>, <<3895, 3895>>, <<3897, 3897>>,
            <<3953, 3966>>, <<3968, 3972>>, <<3974, 3975>>, <<3981, 3991>>,
            <<3993, 4028>>, <<4038, 4038>>, <<4141, 4144>>, <<4146, 4151>>,
            <<4153, 4154>>, <<4157, 4158>>, <<4184, 4185>>, <<4190, 4192>>,
            <<4209, 4212>>, <<4226, 4226>>, <<4229, 4230>>, <<4237, 4237>>,
            <<4253, 4253>>, <<4348, 4348>>, <<4957, 4959>>, <<5906, 5908>>,
            <<5938, 5939>>, <<5970, 5971>>, <<6002, 6003>>, <<6068, 6069>>,
            <<6071, 6077>>, <<6086, 6086>>, <<6089, 6099>>, <<6103, 6103>>,
            <<6109, 6109>>, <<6155, 6159>>, <<6211, 6211>>, <<6277, 6278>>,
            <<6313, 6313>>, <<6432, 6434>>, <<6439, 6440>>, <<6450, 6450>>,
            <<6457, 6459>>, <<6679, 6680>>, <<6683, 6683>>, <<6742, 6742>>,
            <<6744, 6750>>, <<6752, 6752>>, <<6754, 6754>>, <<6757, 6764>>,
            <<6771, 6780>>, <<6783, 6783>>, <<6823, 6823>>, <<6832, 6877>>,
            <<6880, 6891>>, <<6912, 6915>>, <<6964, 6964>>, <<6966, 6970>>,
            <<6972, 6972>>, <<6978, 6978>>, <<7019, 7027>>, <<7040, 7041>>,
            <<7074, 7077>>, <<7080, 7081>>, <<7083, 7085>>, <<7142, 7142>>,
            <<7144, 7145>>, <<7149, 7149>>, <<7151, 7153>>, <<7212, 7219>>,
            <<7222, 7223>>, <<7288, 7293>>, <<7376, 7378>>, <<7380, 7392>>,
            <<7394, 7400>>, <<7405, 7405>>, <<7412, 7412>>, <<7416, 7417>>,
            <<7468, 7530>>, <<7544, 7544>>, <<7579, 7679>>, <<8125, 8125>>,
            <<8127, 8129>>, <<8141, 8143>>, <<8157, 8159>>, <<8173, 8175>>,
            <<8189, 8190>>, <<8203, 8207>>, <<8216, 8217>>, <<8228, 8228>>,
            <<8231, 8231>>, <<8234, 8238>>, <<8288, 8292>>, <<8294, 8303>>,
            <<8305, 8305>>, <<8319, 8319>>, <<8336, 8348>>, <<8400, 8432>>,
            <<11388, 11389>>, <<11503, 11505>>, <<11631, 11631>>, <<11647,
            11647>>, <<11744, 11775>>, <<11823, 11823>>, <<12293, 12293>>,
            <<12330, 12333>>, <<12337, 12341>>, <<12347, 12347>>, <<12441,
            12446>>, <<12540, 12542>>, <<40981, 40981>>, <<42232, 42237>>,
            <<42508, 42508>>, <<42607, 42610>>, <<42612, 42621>>, <<42623,
            42623>>, <<42652, 42655>>, <<42736, 42737>>, <<42752, 42785>>,
            <<42864, 42864>>, <<42888, 42890>>, <<42993, 42996>>, <<43000,
            43001>>, <<43010, 43010>>, <<43014, 43014>>, <<43019, 43019>>,
            <<43045, 43046>>, <<43052, 43052>>, <<43204, 43205>>, <<43232,
            43249>>, <<43263, 43263>>, <<43302, 43309>>, <<43335, 43345>>,
            <<43392, 43394>>, <<43443, 43443>>, <<43446, 43449>>, <<43452,
            43453>>, <<43471, 43471>>, <<43493, 43494>>, <<43561, 43566>>,
            <<43569, 43570>>, <<43573, 43574>>, <<43587, 43587>>, <<43596,
            43596>>, <<43632, 43632>>, <<43644, 43644>>, <<43696, 43696>>,
            <<43698, 43700>>, <<43703, 43704>>, <<43710, 43711>>, <<43713,
            43713>>, <<43741, 43741>>, <<43756, 43757>>, <<43763, 43764>>,
            <<43766, 43766>>, <<43867, 43871>>, <<43881, 43883>>, <<44005,
            44005>>, <<44008, 44008>>, <<44013, 44013>>, <<64286, 64286>>,
            <<64434, 64450>>, <<65024, 65039>>, <<65043, 65043>>, <<65056,
            65071>>, <<65106, 65106>>, <<65109, 65109>>, <<65279, 65279>>,
            <<65287, 65287>>, <<65294, 65294>>, <<65306, 65306>>, <<65342,
            65342>>, <<65344, 65344>>, <<65392, 65392>>, <<65438, 65439>>,
            <<65507, 65507>>, <<65529, 65531>>, <<66045, 66045>>, <<66272,
            66272>>, <<66422, 66426>>, <<67456, 67461>>, <<67463, 67504>>,
            <<67506, 67514>>, <<68097, 68099>>, <<68101, 68102>>, <<68108,
            68111>>, <<68152, 68154>>, <<68159, 68159>>, <<68325, 68326>>,
            <<68900, 68903>>, <<68942, 68942>>, <<68969, 68973>>, <<68975,
            68975>>, <<69291, 69292>>, <<69317, 69317>>, <<69370, 69375>>,
            <<69446, 69456>>, <<69506, 69509>>, <<69633, 69633>>, <<69688,
            69702>>, <<69744, 69744>>, <<69747, 69748>>, <<69759, 69761>>,
            <<69811, 69814>>, <<69817, 69818>>, <<69821, 69821>>, <<69826,
            69826>>, <<69837, 69837>>, <<69888, 69890>>, <<69927, 69931>>,
            <<69933, 69940>>, <<70003, 70003>>, <<70016, 70017>>, <<70070,
            70078>>, <<70089, 70092>>, <<70095, 70095>>, <<70191, 70193>>,
            <<70196, 70196>>, <<70198, 70199>>, <<70206, 70206>>, <<70209,
            70209>>, <<70367, 70367>>, <<70371, 70378>>, <<70400, 70401>>,
            <<70459, 70460>>, <<70464, 70464>>, <<70502, 70508>>, <<70512,
            70516>>, <<70587, 70592>>, <<70606, 70606>>, <<70608, 70608>>,
            <<70610, 70610>>, <<70625, 70626>>, <<70712, 70719>>, <<70722,
            70724>>, <<70726, 70726>>, <<70750, 70750>>, <<70835, 70840>>,
            <<70842, 70842>>, <<70847, 70848>>, <<70850, 70851>>, <<71090,
            71093>>, <<71100, 71101>>, <<71103, 71104>>, <<71132, 71133>>,
            <<71219, 71226>>, <<71229, 71229>>, <<71231, 71232>>, <<71339,
            71339>>, <<71341, 71341>>, <<71344, 71349>>, <<71351, 71351>>,
            <<71453, 71453>>, <<71455, 71455>>, <<71458, 71461>>, <<71463,
            71467>>, <<71727, 71735>>, <<71737, 71738>>, <<71995, 71996>>,
            <<71998, 71998>>, <<72003, 72003>>, <<72148, 72151>>, <<72154,
            72155>>, <<72160, 72160>>, <<72193, 72202>>, <<72243, 72248>>,
            <<72251, 72254>>, <<72263, 72263>>, <<72273, 72278>>, <<72281,
            72283>>, <<72330, 72342>>, <<72344, 72345>>, <<72544, 72544>>,
            <<72546, 72548>>, <<72550, 72550>>, <<72752, 72758>>, <<72760,
            72765>>, <<72767, 72767>>, <<72850, 72871>>, <<72874, 72880>>,
            <<72882, 72883>>, <<72885, 72886>>, <<73009, 73014>>, <<73018,
            73018>>, <<73020, 73021>>, <<73023, 73029>>, <<73031, 73031>>,
            <<73104, 73105>>, <<73109, 73109>>, <<73111, 73111>>, <<73177,
            73177>>, <<73459, 73460>>, <<73472, 73473>>, <<73526, 73530>>,
            <<73536, 73536>>, <<73538, 73538>>, <<73562, 73562>>, <<78896,
            78912>>, <<78919, 78933>>, <<90398, 90409>>, <<90413, 90415>>,
            <<92912, 92916>>, <<92976, 92982>>, <<92992, 92995>>, <<93504,
            93506>>, <<93547, 93548>>, <<94031, 94031>>, <<94095, 94111>>,
            <<94176, 94177>>, <<94179, 94180>>, <<94194, 94195>>, <<110576,
            110579>>, <<110581, 110587>>, <<110589, 110590>>, <<113821,
            113822>>, <<113824, 113827>>, <<118528, 118573>>, <<118576,
            118598>>, <<119143, 119145>>, <<119155, 119170>>, <<119173,
            119179>>, <<119210, 119213>>, <<119362, 119364>>, <<121344,
            121398>>, <<121403, 121452>>, <<121461, 121461>>, <<121476,
            121476>>, <<121499, 121503>>, <<121505, 121519>>, <<122880,
            122886>>, <<122888, 122904>>, <<122907, 122913>>, <<122915,
            122916>>, <<122918, 122922>>, <<122928, 122989>>, <<123023,
            123023>>, <<123184, 123197>>, <<123566, 123566>>, <<123628,
            123631>>, <<124139, 124143>>, <<124398, 124399>>, <<124643,
            124643>>, <<124646, 124646>>, <<124654, 124655>>, <<124661,
            124661>>, <<124671, 124671>>, <<125136, 125142>>, <<125252,
            125259>>, <<127995, 127999>>, <<917505, 917505>>, <<917536,
            917631>>, <<917760, 917999>> >>
        IsHighSurrogate(x) == x >= 55296 /\ x <= 56319
        IsLowSurrogate(x) == x >= 56320 /\ x <= 57343
        unit == [i \in 1..Len(t) |-> CodeUnit(t[i])]
        \* Position i is the low half of a surrogate pair.
        LowHalf(i) == IsLowSurrogate(unit[i]) /\ i > 1 /\ IsHighSurrogate(unit[i - 1])
        \* The code point that starts at position i.
        CodePoint(i) ==
            IF IsHighSurrogate(unit[i]) /\ i < Len(t) /\ IsLowSurrogate(unit[i + 1])
            THEN 65536 + ((unit[i] - 55296) * 1024) + (unit[i + 1] - 56320)
            ELSE unit[i]
        In(cp, ranges) == \E k \in 1..Len(ranges) : cp >= ranges[k][1] /\ cp <= ranges[k][2]
        IsCased(i) == ~LowHalf(i) /\ In(CodePoint(i), Cased)
        Skipped(i) == LowHalf(i) \/ In(CodePoint(i), CaseIgnorable)
        FinalSigma(i) ==
            /\ \E j \in 1..(i - 1) : IsCased(j) /\ \A k \in (j + 1)..(i - 1) : Skipped(k)
            /\ ~\E j \in (i + 1)..Len(t) : IsCased(j) /\ \A k \in (i + 1)..(j - 1) : Skipped(k)
        Mapped(cp) ==
            LET hit == {k \in 1..Len(LowerRanges) :
                           /\ cp >= LowerRanges[k][1] /\ cp <= LowerRanges[k][2]
                           /\ (cp - LowerRanges[k][1]) % LowerRanges[k][3] = 0}
            IN IF hit = {} THEN cp ELSE cp + LowerRanges[CHOOSE k \in hit : TRUE][4]
        \* What position i contributes to the result.
        Lower(i) ==
            IF unit[i] < 128
            THEN <<IF unit[i] >= 65 /\ unit[i] <= 90 THEN CharOf(unit[i] + 32) ELSE t[i]>>
            ELSE IF LowHalf(i) THEN <<>>
            ELSE IF CodePoint(i) = 304 THEN <<"i", "U+0307">>
            ELSE IF CodePoint(i) = 931 THEN <<IF FinalSigma(i) THEN "U+03C2" ELSE "U+03C3">>
            ELSE CodeUnits(Mapped(CodePoint(i)))
        RECURSIVE LowerRange(_, _)
        LowerRange(lo, hi) ==
            IF lo > hi THEN <<>>
            ELSE IF lo = hi THEN Lower(lo)
            ELSE LowerRange(lo, (lo + hi) \div 2) \o LowerRange(((lo + hi) \div 2) + 1, hi)
    IN IF \A i \in 1..Len(t) : unit[i] < 128
       THEN [i \in 1..Len(t) |-> Lower(i)[1]]
       ELSE LowerRange(1, Len(t))

\* String.prototype.includes.
includes(t, kw) ==
    \E i \in 0..(Len(t) - Len(kw)) : \A j \in 1..Len(kw) : t[i + j] = kw[j]

\* The characters the regular expressions' \s matches, and the line
\* terminators after which ^ matches under the m flag.
WhiteSpace ==
    {CharOf(u) : u \in (9..13) \cup {32, 160, 5760} \cup (8192..8202)
                       \cup {8232, 8233, 8239, 8287, 12288, 65279}}
LineTerminator == {CharOf(u) : u \in {10, 13, 8232, 8233}}
\* "U+2022" stands for the one character U+2022 (the bullet).
BulletMarker == {"-", "*", "U+2022"}
Digit == {"0", "1", "2", "3", "4", "5", "6", "7", "8", "9"}

\* ^ at 1-based position s of t.
LineStart(t, s) == s = 1 \/ t[s - 1] \in LineTerminator

\* ^\s* can end right before position p: a run of white space that starts
\* at a line start reaches p.
IndentedAt(t, p) ==
    \E s \in 1..p : LineStart(t, s) /\ \A k \in s..(p - 1) : t[k] \in WhiteSpace

\* (body.match(/^\s*[-*U+2022]\s/gm) || []).length. The matches of a global
\* search do not overlap and each ends right after one "marker, white space"
\* pair, so they are counted by the position p of their marker: a marker
\* can only be matched after the whole white-space run in front of it, and
\* two matches never share a marker.
bulletCount(t) ==
    Cardinality({p \in 1..(Len(t) - 1) :
        /\ t[p] \in BulletMarker
        /\ t[p + 1] \in WhiteSpace
        /\ IndentedAt(t, p)})

\* (body.match(/^\s*\d+\.\s/gm) || []).length, counted by the position q of
\* the match's "." : digits d..q-1 in front of it, white space after it, and
\* the digits start where ^\s* can end.
numberCount(t) ==
    Cardinality({q \in 2..(Len(t) - 1) :
        /\ t[q] = "."
        /\ t[q + 1] \in WhiteSpace
        /\ \E d \in 1..(q - 1) :
              /\ \A k \in d..(q - 1) : t[k] \in Digit
              /\ IndentedAt(t, d)})

\* (combinedText.match(/\?/g) || []).length
questionCount(t) == Cardinality({i \in 1..Len(t) : t[i] = "?"})

complexKeywords ==
    { <<"c","o","n","t","r","a","c","t">>,
      <<"l","e","g","a","l">>,
      <<"a","g","r","e","e","m","e","n","t">>,
      <<"t","e","r","m","s"," ","a","n","d"," ","c","o","n","d","i","t","i","o","n","s">>,
      <<"t","e","c","h","n","i","c","a","l"," ","i","s","s","u","e">>,
      <<"b","u","g"," ","r","e","p","o","r","t">>,
      <<"e","r","r","o","r"," ","l","o","g">>,
      <<"s","t","a","c","k"," ","t","r","a","c","e">>,
      <<"f","i","n","a","n","c","i","a","l"," ","s","t","a","t","e","m","e","n","t">>,
      <<"i","n","v","o","i","c","e">>,
      <<"p","a","y","m","e","n","t"," ","t","e","r","m","s">>,
      <<"m","u","l","t","i","-","s","t","e","p">>,
      <<"d","e","t","a","i","l","e","d"," ","i","n","s","t","r","u","c","t","i","o","n","s">>,
      <<"c","o","m","p","r","e","h","e","n","s","i","v","e">> }

LengthLimit == 1500
QuestionLimit == 3
ListLimit == 5

\* rulesBasedComplexityCheck with the question rule off by one (> for >=).
rulesBasedComplexityCheckOffByOne(subj, bod) ==
    LET combinedText == toLowerCase(subj \o <<" ">> \o bod) IN
    IF Len(bod) > LengthLimit THEN TRUE
    ELSE IF questionCount(combinedText) > QuestionLimit THEN TRUE
    ELSE IF \E kw \in complexKeywords : includes(combinedText, kw) THEN TRUE
    ELSE IF bulletCount(bod) >= ListLimit \/ numberCount(bod) >= ListLimit THEN TRUE
    ELSE FALSE

rulesBasedComplexityCheck(subj, bod) ==
    LET combinedText == toLowerCase(subj \o <<" ">> \o bod) IN
    IF Len(bod) > LengthLimit THEN TRUE
    ELSE IF questionCount(combinedText) >= QuestionLimit THEN TRUE
    ELSE IF \E kw \in complexKeywords : includes(combinedText, kw) THEN TRUE
    ELSE IF bulletCount(bod) >= ListLimit \/ numberCount(bod) >= ListLimit THEN TRUE
    ELSE FALSE

-----------------------------------------------------------------------------
(* JavaScript values and the model client, src/llm/openaiClient.js *)

NoFields == [f \in {} |-> "undefined"]
JsObject(fields) == [type |-> "object", fields |-> fields]
JsNull == [type |-> "null", fields |-> NoFields]
JsUndefined == [type |-> "undefined", fields |-> NoFields]
JsPrimitive == [type |-> "primitive", fields |-> NoFields]

\* Reading property f of v raises a TypeError for null and undefined.
Throws(v) == v.type \in {"null", "undefined"}

\* v.f for a value on which the read does not throw.
Get(v, f) == IF f \in DOMAIN v.fields THEN v.fields[f] ELSE "undefined"

\* The own enumerable properties {...v} copies: none for null, undefined
\* and a number.
Spread(v) == v.fields

\* {...a, ...b}: b's properties override a's.
Assign(a, b) ==
    [f \in DOMAIN a \cup DOMAIN b |-> IF f \in DOMAIN b THEN b[f] ELSE a[f]]

\* The object the catch block of callOpenAI returns.
Fallback ==
    JsObject([summary_bullets |-> "['Unable to summarize - API error']",
              action_items |-> "[]",
              urgency |-> "'low'",
              needs_mid_tier |-> "false",
              why |-> "''"])

\* What the remote capability can answer with.  A document is the text of
\* message.content: text that is not JSON, or the JSON text of null, of a
\* number, or of an object.
FullDocs ==
    { [json |-> "object",
       fields |-> [summary_bullets |-> b, action_items |-> "[]", urgency |-> u,
                   needs_mid_tier |-> n, why |-> w]] :
      b \in {"['a']", "['b']"}, u \in {"'high'"}, n \in {"true", "false", "'true'"},
      w \in {"''", "'complex'"} }

PartialDocs ==
    { [json |-> "object", fields |-> NoFields],
      [json |-> "object", fields |-> [summary_bullets |-> "['a']", urgency |-> "'high'"]],
      [json |-> "object", fields |-> [needs_mid_tier |-> "true"]],
      [json |-> "object",
       fields |-> [summary_bullets |-> "['a']", used_mid_tier |-> "true",
                   escalation_reason |-> "'rules_based'"]] }

OtherDocs ==
    { [json |-> "invalid", fields |-> NoFields],
      [json |-> "null", fields |-> NoFields],
      [json |-> "number", fields |-> NoFields] }

Docs == FullDocs \cup PartialDocs \cup OtherDocs

Responses ==
    { [kind |-> "transport_error", doc |-> [json |-> "invalid", fields |-> NoFields]] }
    \cup { [kind |-> "content", doc |-> d] : d \in Docs }

\* JSON.parse(content): the parsed value; the caller checks ParseFails first.
ParseFails(doc) == doc.json = "invalid"
JSONparse(doc) ==
    CASE doc.json = "object" -> JsObject(doc.fields)
      [] doc.json = "null" -> JsNull
      [] OTHER -> JsPrimitive

\* callOpenAI whose catch block logs the error and returns nothing.
callOpenAINoFallback(resp) ==
    IF resp.kind = "transport_error" THEN JsUndefined
    ELSE IF ParseFails(resp.doc) THEN JsUndefined
    ELSE JSONparse(resp.doc)

\* callOpenAI(model, subject, body) once the remote call has settled with
\* resp: the try block returns JSON.parse(content); a rejected request and
\* a SyntaxError of JSON.parse both reach the catch block.
callOpenAI(resp) ==
    IF resp.kind = "transport_error" THEN Fallback
    ELSE IF ParseFails(resp.doc) THEN Fallback
    ELSE JSONparse(resp.doc)

BodyBudget == 2000

\* body.substring(0, 2000)
truncatedBody(bod) == SubSeq(bod, 1, IF Len(bod) < BodyBudget THEN Len(bod) ELSE BodyBudget)

\* The request callMini / callMid send: callOpenAI(MINI_MODEL | MID_MODEL, ...).
callMini(subj, bod) == [tier |-> "mini", subject |-> subj, body |-> truncatedBody(bod)]
callMid(subj, bod) == [tier |-> "mid", subject |-> subj, body |-> truncatedBody(bod)]

-----------------------------------------------------------------------------
(* The router, src/llm/summarizer.js.  One call of summarizeEmail: each    *)
(* action is the code between two awaits.                                  *)

RulesTags == [used_mid_tier |-> "true", escalation_reason |-> "'rules_based'"]
\* ModelTags without the mini tier's reason.
ModelTagsNoReason(why) ==
    [used_mid_tier |-> "true", escalation_reason |-> "'model_requested'", model_reason |-> "undefined"]
ModelTags(why) ==
    [used_mid_tier |-> "true", escalation_reason |-> "'model_requested'", model_reason |-> why]
\* MiniTags claiming the mid tier.
MiniTagsEscalated == [used_mid_tier |-> "true", escalation_reason |-> "null"]
MiniTags == [used_mid_tier |-> "false", escalation_reason |-> "null"]

\* Up to the first await: the rules-based check, then callMid or callMini.
summarizeEmailStart ==
    /\ rpc = "start"
    /\ IF rulesBasedComplexityCheck(subject, body)
       THEN /\ calls' = Append(calls, callMid(subject, body))
            /\ rpc' = "awaitMidRules"
       ELSE /\ calls' = Append(calls, callMini(subject, body))
            /\ rpc' = "awaitMini"
    /\ UNCHANGED <<subject, body, miniResult, midResult, result, outcomes, notRouter>>

\* callMid of the rules-based path resolves: the tagged mid result returns.
summarizeEmailRulesMid(resp) ==
    /\ rpc = "awaitMidRules"
    /\ outcomes' = Append(outcomes, resp.kind)
    /\ midResult' = callOpenAI(resp)
    /\ result' = Assign(Spread(midResult'), RulesTags)
    /\ rpc' = "returned"
    /\ UNCHANGED <<subject, body, miniResult, calls, notRouter>>

\* callMini resolves: miniResult.needs_mid_tier === true escalates; reading
\* the property of null raises a TypeError out of summarizeEmail.
summarizeEmailMini(resp) ==
    /\ rpc = "awaitMini"
    /\ outcomes' = Append(outcomes, resp.kind)
    /\ miniResult' = callOpenAI(resp)
    /\ IF Throws(miniResult')
       THEN /\ rpc' = "thrown"
            /\ UNCHANGED <<calls, result>>
       ELSE IF Get(miniResult', "needs_mid_tier") = "true"
       THEN /\ calls' = Append(calls, callMid(subject, body))
            /\ rpc' = "awaitMidModel"
            /\ UNCHANGED result
       ELSE /\ result' = Assign(Spread(miniResult'), MiniTags)
            /\ rpc' = "returned"
            /\ UNCHANGED calls
    /\ UNCHANGED <<subject, body, midResult, notRouter>>

\* callMid of the model-requested path resolves.
summarizeEmailModelMid(resp) ==
    /\ rpc = "awaitMidModel"
    /\ outcomes' = Append(outcomes, resp.kind)
    /\ midResult' = callOpenAI(resp)
    /\ result' = Assign(Spread(midResult'), ModelTags(Get(miniResult, "why")))
    /\ rpc' = "returned"
    /\ UNCHANGED <<subject, body, miniResult, calls, notRouter>>

\* The (subject, body) arguments: every text of at most MaxTextLen
\* characters over a and ?, and texts built to reach each rule and its
\* boundary, some of them with characters outside ASCII (the Kelvin sign
\* U+212A, whose lower case is k; U+0130, whose lower case is two
\* characters; the no-break space and the line separator).
MaxTextLen == 1
ShortTexts == UNION { [1..n -> {"a", "?"}] : n \in 0..MaxTextLen }

Repeat(line, n) == [i \in 1..(n * Len(line)) |-> line[((i - 1) % Len(line)) + 1]]

SampleSubjects ==
    { <<"H", "i">>, <<"?">>, <<"B", "u", "g">>, <<"R", "e", ":", " ", "?", "?">> }

\* A body at the length limit and one just over it.
LongBodies == { Repeat(<<"a">>, LengthLimit), Repeat(<<"a">>, LengthLimit + 1) }

SampleBodies ==
    { <<"r", "e", "p", "o", "r", "t">>,
      <<"I", "n", "v", "o", "i", "c", "e", " ", "d", "u", "e">>,
      <<"l", "e", "g", "a">>,
      Repeat(<<"-", " ", "a", "\n">>, ListLimit - 1),
      Repeat(<<"-", " ", "a", "\n">>, ListLimit),
      Repeat(<<" ", "*", "\n">>, ListLimit),
      Repeat(<<"-", "a", "\n">>, ListLimit),
      Repeat(<<"a", "-", " ", "\n">>, ListLimit),
      Repeat(<<"1", "2", ".", " ", "a", "\n">>, ListLimit),
      Repeat(<<"1", ".", "\n">>, ListLimit - 1),
      Repeat(<<"1", ".", "a", "\n">>, ListLimit),
      Repeat(<<"?", "\n", "-", " ">>, 2),
      <<"s", "t", "a", "c", "U+212A", " ", "t", "r", "a", "c", "e">>,
      <<"U+0130", "n", "v", "o", "i", "c", "e">>,
      Repeat(<<"-", "U+00A0", "a", "U+2028">>, ListLimit) }

Inputs ==
    ((ShortTexts \cup SampleSubjects) \X (ShortTexts \cup SampleBodies))
    \cup ({<<"H", "i">>} \X LongBodies)

RouterInit ==
    /\ \E in \in Inputs : subject = in[1] /\ body = in[2]
    /\ rpc = "start"
    /\ miniResult = JsUndefined
    /\ midResult = JsUndefined
    /\ result = NoFields
    /\ calls = <<>>
    /\ outcomes = <<>>

\* No call of summarizeEmail.
RouterIdle ==
    /\ subject = <<>>
    /\ body = <<>>
    /\ rpc = "returned"
    /\ miniResult = JsUndefined
    /\ midResult = JsUndefined
    /\ result = NoFields
    /\ calls = <<>>
    /\ outcomes = <<>>

RouterNext ==
    \/ summarizeEmailStart
    \/ \E resp \in Responses : summarizeEmailRulesMid(resp)
    \/ \E resp \in Responses : summarizeEmailMini(resp)
    \/ \E resp \in Responses : summarizeEmailModelMid(resp)

-----------------------------------------------------------------------------
(* The cache key, src/store/cache.js: hashBody is the first 16 hex digits  *)
(* of the SHA-256 digest of the body's UTF-8 encoding.  A 32-bit word is a *)
(* pair <<high 16 bits, low 16 bits>>.                                     *)

\* The bytes of the code point cp in UTF-8.
Utf8CodePoint(cp) ==
    IF cp < 128 THEN <<cp>>
    ELSE IF cp < 2048 THEN <<192 + (cp \div 64), 128 + (cp % 64)>>
    ELSE IF cp < 65536
         THEN <<224 + (cp \div 4096), 128 + ((cp \div 64) % 64), 128 + (cp % 64)>>
    ELSE <<240 + (cp \div 262144), 128 + ((cp \div 4096) % 64),
           128 + ((cp \div 64) % 64), 128 + (cp % 64)>>

\* update(body) encodes the string as UTF-8: a surrogate pair is one code
\* point, an unpaired surrogate is encoded as U+FFFD.  Utf8Unit is what the
\* code unit at position i contributes: the low half of a pair nothing, the
\* high half the pair's four bytes.
Utf8Unit(t, i) ==
    LET u == CodeUnit(t[i])
        IsHighSurrogate(x) == x >= 55296 /\ x <= 56319
        IsLowSurrogate(x) == x >= 56320 /\ x <= 57343
    IN
    IF IsLowSurrogate(u) /\ i > 1 /\ IsHighSurrogate(CodeUnit(t[i - 1])) THEN <<>>
    ELSE IF IsHighSurrogate(u) /\ i < Len(t) /\ IsLowSurrogate(CodeUnit(t[i + 1]))
    THEN Utf8CodePoint(65536 + ((u - 55296) * 1024) + (CodeUnit(t[i + 1]) - 56320))
    ELSE IF IsHighSurrogate(u) \/ IsLowSurrogate(u) THEN Utf8CodePoint(65533)
    ELSE Utf8CodePoint(u)

\* The bytes of the code units lo..hi, in order.
RECURSIVE Utf8Range(_, _, _)
Utf8Range(t, lo, hi) ==
    IF lo > hi THEN <<>>
    ELSE IF lo = hi THEN Utf8Unit(t, lo)
    ELSE Utf8Range(t, lo, (lo + hi) \div 2) \o Utf8Range(t, ((lo + hi) \div 2) + 1, hi)

Utf8(t) == Utf8Range(t, 1, Len(t))

Pow2 == [n \in 0..16 |-> 2 ^ n]

\* Bitwise operations on 4-bit digits, then on 16-bit halves and words.
XorNibble ==
    [a \in 0..15 |-> [b \in 0..15 |->
        ((a + b) % 2)
        + 2 * (((a \div 2) + (b \div 2)) % 2)
        + 4 * (((a \div 4) + (b \div 4)) % 2)
        + 8 * (((a \div 8) + (b \div 8)) % 2)]]
AndNibble ==
    [a \in 0..15 |-> [b \in 0..15 |->
        ((a % 2) * (b % 2))
        + 2 * (((a \div 2) % 2) * ((b \div 2) % 2))
        + 4 * (((a \div 4) % 2) * ((b \div 4) % 2))
        + 8 * ((a \div 8) * (b \div 8))]]

Xor(x, y) ==
    LET Xor16(a, b) ==
            XorNibble[a % 16][b % 16]
            + (16 * XorNibble[(a \div 16) % 16][(b \div 16) % 16])
            + (256 * XorNibble[(a \div 256) % 16][(b \div 256) % 16])
            + (4096 * XorNibble[a \div 4096][b \div 4096])
    IN <<Xor16(x[1], y[1]), Xor16(x[2], y[2])>>
And(x, y) ==
    LET And16(a, b) ==
            AndNibble[a % 16][b % 16]
            + (16 * AndNibble[(a \div 16) % 16][(b \div 16) % 16])
            + (256 * AndNibble[(a \div 256) % 16][(b \div 256) % 16])
            + (4096 * AndNibble[a \div 4096][b \div 4096])
    IN <<And16(x[1], y[1]), And16(x[2], y[2])>>
Not(x) == <<65535 - x[1], 65535 - x[2]>>
\* Addition modulo 2^32.
Add(x, y) ==
    LET lo == x[2] + y[2] IN <<(x[1] + y[1] + (lo \div 65536)) % 65536, lo % 65536>>

\* Rotation and shift to the right by n bits, 0 < n < 32.
RotR(x, n) ==
    LET y == IF n >= 16 THEN <<x[2], x[1]>> ELSE x
        m == n % 16
    IN  <<(y[1] \div Pow2[m]) + ((y[2] % Pow2[m]) * Pow2[16 - m]),
          (y[2] \div Pow2[m]) + ((y[1] % Pow2[m]) * Pow2[16 - m])>>
ShR(x, n) ==
    IF n >= 16 THEN <<0, x[1] \div Pow2[n - 16]>>
    ELSE <<x[1] \div Pow2[n], (x[2] \div Pow2[n]) + ((x[1] % Pow2[n]) * Pow2[16 - n])>>

\* The round constants and the initial hash value of SHA-256.
RoundConstants ==
    << <<17034, 12184>>, <<28983, 17553>>, <<46528, 64463>>, <<59829, 56229>>,
       <<14678, 49755>>, <<23025, 4593>>, <<37439, 33444>>, <<43804, 24277>>,
       <<55303, 43672>>, <<4739, 23297>>, <<9265, 34238>>, <<21772, 32195>>,
       <<29374, 23924>>, <<32990, 45566>>, <<39900, 1703>>, <<49563, 61812>>,
       <<58523, 27073>>, <<61374, 18310>>, <<4033, 40390>>, <<9228, 41420>>,
       <<11753, 11375>>, <<19060, 33962>>, <<23728, 43484>>, <<30457, 35034>>,
       <<38974, 20818>>, <<43057, 50797>>, <<45059, 10184>>, <<48985, 32711>>,
       <<50912, 3059>>, <<54695, 37191>>, <<1738, 25425>>, <<5161, 10599>>,
       <<10167, 2693>>, <<11803, 8504>>, <<19756, 28156>>, <<21304, 3347>>,
       <<25866, 29524>>, <<30314, 2747>>, <<33218, 51502>>, <<37490, 11397>>,
       <<41663, 59553>>, <<43034, 26187>>, <<49739, 35696>>, <<51052, 20899>>,
       <<53650, 59417>>, <<54937, 1572>>, <<62478, 13701>>, <<4202, 41072>>,
       <<6564, 49430>>, <<7735, 27656>>, <<10056, 30540>>, <<13488, 48309>>,
       <<14620, 3251>>, <<20184, 43594>>, <<23452, 51791>>, <<26670, 28659>>,
       <<29839, 33518>>, <<30885, 25455>>, <<33992, 30740>>, <<36039, 520>>,
       <<37054, 65530>>, <<42064, 27883>>, <<48889, 41975>>, <<50801, 30962>> >>
InitialHash ==
    << <<27145, 58983>>, <<47975, 44677>>, <<15470, 62322>>, <<42319, 62778>>,
       <<20750, 21119>>, <<39685, 26764>>, <<8067, 55723>>, <<23520, 52505>> >>

\* The message padded to whole 64-byte blocks: 0x80, zeros, and the length
\* in bits as 8 bytes (the high 4 are zero for the lengths modelled).
Padded(bytes) ==
    LET n == Len(bytes)
        total == ((n + 72) \div 64) * 64
        bits == n * 8
    IN  [i \in 1..total |->
            IF i <= n THEN bytes[i]
            ELSE IF i = n + 1 THEN 128
            ELSE IF i = total THEN bits % 256
            ELSE IF i = total - 1 THEN (bits \div 256) % 256
            ELSE IF i = total - 2 THEN (bits \div 65536) % 256
            ELSE IF i = total - 3 THEN bits \div 16777216
            ELSE 0]

\* The schedule word that follows w[1..t] for the block after byte `off`.
ScheduleWord(msg, off, w) ==
    LET t == Len(w)
        SmallSigma0(x) == Xor(Xor(RotR(x, 7), RotR(x, 18)), ShR(x, 3))
        SmallSigma1(x) == Xor(Xor(RotR(x, 17), RotR(x, 19)), ShR(x, 10))
    IN
    IF t < 16
    THEN <<(msg[off + (4 * t) + 1] * 256) + msg[off + (4 * t) + 2],
           (msg[off + (4 * t) + 3] * 256) + msg[off + (4 * t) + 4]>>
    ELSE Add(Add(SmallSigma1(w[t - 1]), w[t - 6]), Add(SmallSigma0(w[t - 14]), w[t - 15]))

\* The message schedule w extended by its words lo..hi (Len(w) = lo - 1).
\* The halves are computed one after the other.
RECURSIVE Schedule(_, _, _, _, _)
Schedule(msg, off, w, lo, hi) ==
    IF lo = hi THEN Append(w, ScheduleWord(msg, off, w))
    ELSE CHOOSE out \in
             { Schedule(msg, off, x, ((lo + hi) \div 2) + 1, hi) :
                   x \in {Schedule(msg, off, w, lo, (lo + hi) \div 2)} } : TRUE

\* One round on the working variables v = <<a, b, c, d, e, f, g, h>>, with
\* the schedule word wt and the round constant kt.
Round(v, wt, kt) ==
    LET Ch(e, f, g) == Xor(And(e, f), And(Not(e), g))
        Maj(a, b, c) == Xor(Xor(And(a, b), And(a, c)), And(b, c))
        BigSigma0(a) == Xor(Xor(RotR(a, 2), RotR(a, 13)), RotR(a, 22))
        BigSigma1(e) == Xor(Xor(RotR(e, 6), RotR(e, 11)), RotR(e, 25))
        t1 == Add(Add(Add(v[8], BigSigma1(v[5])), Add(Ch(v[5], v[6], v[7]), kt)), wt)
        t2 == Add(BigSigma0(v[1]), Maj(v[1], v[2], v[3]))
    IN  <<Add(t1, t2), v[1], v[2], v[3], Add(v[4], t1), v[5], v[6], v[7]>>

\* Rounds lo..hi, in order.
RECURSIVE Rounds(_, _, _, _)
Rounds(v, w, lo, hi) ==
    IF lo = hi THEN Round(v, w[lo], RoundConstants[lo])
    ELSE CHOOSE out \in
             { Rounds(x, w, ((lo + hi) \div 2) + 1, hi) :
                   x \in {Rounds(v, w, lo, (lo + hi) \div 2)} } : TRUE

\* The hash value h after the blocks from byte `off` on.
RECURSIVE Blocks(_, _, _)
Blocks(msg, off, h) ==
    IF off >= Len(msg) THEN h
    ELSE CHOOSE out \in
             { Blocks(msg, off + 64, <<Add(h[1], v[1]), Add(h[2], v[2]), Add(h[3], v[3]),
                                       Add(h[4], v[4]), Add(h[5], v[5]), Add(h[6], v[6]),
                                       Add(h[7], v[7]), Add(h[8], v[8])>>) :
                   v \in {Rounds(h, Schedule(msg, off, <<>>, 1, 64), 1, 64)} } : TRUE

Sha256(bytes) == Blocks(Padded(bytes), 0, InitialHash)

HexDigits == <<"0", "1", "2", "3", "4", "5", "6", "7", "8", "9", "a", "b", "c", "d", "e", "f">>

\* crypto.createHash('sha256').update(body).digest('hex').substring(0, 16)
hashBody(bod) ==
    LET h == Sha256(Utf8(bod))
        Hex16(a) ==
            <<HexDigits[(a \div 4096) + 1], HexDigits[((a \div 256) % 16) + 1],
              HexDigits[((a \div 16) % 16) + 1], HexDigits[(a % 16) + 1]>>
        HexWord(x) == Hex16(x[1]) \o Hex16(x[2])
    IN HexWord(h[1]) \o HexWord(h[2])

getCacheKeyNoMessageId(provider, messageId, bod) ==
    provider \o <<":">> \o hashBody(bod)

\* `${provider}:${messageId}:${bodyHash}`
getCacheKey(provider, messageId, bod) ==
    provider \o <<":">> \o messageId \o <<":">> \o hashBody(bod)

\* The arguments of the calls: providers, message ids and bodies, among them
\* bodies that differ in one character and bodies with unpaired surrogates.
KeyProviders == { <<"g", "o", "o", "g", "l", "e">>, <<"o", "u", "t", "l", "o", "o", "k">> }
KeyMessageIds == { <<"1", "8", "c">>, <<"1", "8", "d">> }
KeyBodies ==
    { <<>>, <<"H", "i">>, <<"H", "i", "!">>, <<"h", "i">>,
      <<"U+D800">>, <<"U+FFFD">>, <<"U+D83D", "U+DE00">>, <<"U+DE00", "U+D83D">> }
KeyTriples == KeyProviders \X KeyMessageIds \X KeyBodies

\* The components in which two triples differ.
Differing(t1, t2) == {c \in 1..3 : t1[c] # t2[c]}

\* Two calls, on the same triple or on triples that differ in one component.
KeyInit ==
    /\ keyArgs \in {p \in KeyTriples \X KeyTriples : Cardinality(Differing(p[1], p[2])) <= 1}
    /\ keyOut = <<"none", "none">>

\* No call of getCacheKey.
KeyIdle ==
    /\ keyArgs = <<>>
    /\ keyOut = <<>>

\* Call i returns getCacheKey of its arguments.
getCacheKeyCall(i) ==
    /\ keyOut[i] = "none"
    /\ keyOut' = [keyOut EXCEPT ![i] = getCacheKey(keyArgs[i][1], keyArgs[i][2], keyArgs[i][3])]
    /\ UNCHANGED <<keyArgs, notKey>>

KeyNext == \E i \in 1..2 : getCacheKeyCall(i)

-----------------------------------------------------------------------------
(* Time, src/store/cache.js.  An instant is a count of milliseconds since   *)
(* the epoch, kept as [day, ms]: whole days and the milliseconds of the     *)
(* last day.  An ISO string is kept as the record of its fields.            *)

MsPerDay == 24 * 60 * 60 * 1000

\* The Gregorian date of a day number, and back.
CivilFromDays(days) ==
    LET z == days + 719468
        era == z \div 146097
        doe == z - (era * 146097)
        yoe == (((doe - (doe \div 1460)) + (doe \div 36524)) - (doe \div 146096)) \div 365
        doy == doe - (((365 * yoe) + (yoe \div 4)) - (yoe \div 100))
        mp == ((5 * doy) + 2) \div 153
        d == (doy - (((153 * mp) + 2) \div 5)) + 1
        m == IF mp < 10 THEN mp + 3 ELSE mp - 9
        y == (yoe + (era * 400)) + (IF m <= 2 THEN 1 ELSE 0)
    IN [year |-> y, month |-> m, date |-> d]

DaysFromCivil(year, month, date) ==
    LET y == IF month <= 2 THEN year - 1 ELSE year
        era == y \div 400
        yoe == y - (era * 400)
        mp == IF month > 2 THEN month - 3 ELSE month + 9
        doy == ((((153 * mp) + 2) \div 5) + date) - 1
        doe == (((yoe * 365) + (yoe \div 4)) - (yoe \div 100)) + doy
    IN ((era * 146097) + doe) - 719468

\* new Date(t).toISOString(): the fields of YYYY-MM-DDTHH:mm:ss.sssZ.
toISOString(t) ==
    LET c == CivilFromDays(t.day)
    IN [year |-> c.year, month |-> c.month, date |-> c.date,
        hours |-> t.ms \div 3600000,
        minutes |-> (t.ms \div 60000) % 60,
        seconds |-> (t.ms \div 1000) % 60,
        milliseconds |-> t.ms % 1000]

\* new Date(iso).getTime()
getTime(iso) ==
    [day |-> DaysFromCivil(iso.year, iso.month, iso.date),
     ms |-> (((iso.hours * 3600000) + (iso.minutes * 60000)) + (iso.seconds * 1000))
            + iso.milliseconds]

\* a < b on instants
Before(a, b) == a.day < b.day \/ (a.day = b.day /\ a.ms < b.ms)

\* t plus days and milliseconds
Later(t, days, ms) ==
    [day |-> (t.day + days) + ((t.ms + ms) \div MsPerDay), ms |-> (t.ms + ms) % MsPerDay]

\* Date.now() - (30 * 24 * 60 * 60 * 1000) at instant t
TtlDays == 30
thirtyDaysAgo(t) == [day |-> t.day - TtlDays, ms |-> t.ms]

\* The instants the clock shows, in order: an entry cached at the first one
\* is 29 days, 30 days, 30 days and a millisecond, 30 days and a second old
\* at the later ones.  The last instant stands for every later one.
Epoch0 == [day |-> 20000, ms |-> 43200123]
Clock ==
    << Epoch0, Later(Epoch0, 29, 0), Later(Epoch0, 30, 0), Later(Epoch0, 30, 1),
       Later(Epoch0, 30, 1000) >>
-----------------------------------------------------------------------------
(* The summary cache, src/store/cache.js, over lowdb's Low and JSONFile.    *)
(* A value of db.data, and a document of cache.json, is a record            *)
(* [null, summaries, lastOpen]: null for the value null (for the file: no   *)
(* file), and for each of the two maps whether the object has it and its    *)
(* content.  A cache entry is [fields, cachedAt]: the properties copied     *)
(* from the summary and the cachedAt string.  Each call of an operation is  *)
(* a record of ops; an action is the code between two awaits.               *)

NoMap == [has |-> FALSE, map |-> <<>>]
SomeMap(m) == [has |-> TRUE, map |-> m]
NullData == [null |-> TRUE, summaries |-> NoMap, lastOpen |-> NoMap]
EmptyObject == [null |-> FALSE, summaries |-> NoMap, lastOpen |-> NoMap]
Store(s, l) == [null |-> FALSE, summaries |-> SomeMap(s), lastOpen |-> SomeMap(l)]

\* { summaries: {}, lastOpen: {} }
DefaultStore == Store(<<>>, <<>>)

\* m with m[k] = v, and m without the keys of ks
Put(m, k, v) == [x \in DOMAIN m \cup {k} |-> IF x = k THEN v ELSE m[x]]
Without(m, ks) == [x \in DOMAIN m \ ks |-> m[x]]

\* { ...summary, cachedAt: new Date().toISOString() }
Entry(summary, t) ==
    [fields |-> [f \in DOMAIN Spread(summary) \ {"cachedAt"} |-> Spread(summary)[f]],
     cachedAt |-> toISOString(t)]

\* JSON.stringify leaves out the properties whose value is undefined.
StringifyEntry(e) ==
    [fields |-> [f \in {g \in DOMAIN e.fields : e.fields[g] # "undefined"} |-> e.fields[f]],
     cachedAt |-> e.cachedAt]
StringifyMap(m) ==
    IF m.has THEN SomeMap([k \in DOMAIN m.map |-> StringifyEntry(m.map[k])]) ELSE NoMap

\* JSONFile.write: the document JSON.stringify(db.data) at the call.
Stringify(data) ==
    [null |-> data.null, summaries |-> StringifyMap(data.summaries), lastOpen |-> data.lastOpen]

\* JSONFile.read: null when there is no file, else JSON.parse of its text.
JSONFileRead(doc) == IF doc.null THEN NullData ELSE doc

\* Low.read(): lowdb 5 assigns what the adapter read; lowdb 6 and later
\* assign it only if it is truthy.
LowRead(api, data, readValue) ==
    IF api = "v5" THEN readValue
    ELSE IF readValue.null THEN data ELSE readValue

\* new Low(adapter, {}): lowdb 5 ignores the second argument, data is null.
LowInitialData(api) == IF api = "v5" THEN NullData ELSE EmptyObject

\* new Date(entry.cachedAt).getTime() < thirtyDaysAgo
ExpiredOrAtBoundary(entry, t) == ~Before(thirtyDaysAgo(t), getTime(entry.cachedAt))
Expired(entry, t) == Before(getTime(entry.cachedAt), thirtyDaysAgo(t))

\* The loop of cleanOldCache over Object.entries(db.data.summaries).
Sweep(m, t) == Without(m, {k \in DOMAIN m : Expired(m[k], t)})

\* The arguments of the calls.
CacheTriples ==
    { << <<"g", "o", "o", "g", "l", "e">>, <<"1", "8", "c">>, <<"H", "i">> >>,
      << <<"g", "o", "o", "g", "l", "e">>, <<"1", "8", "d">>, <<"H", "i">> >>,
      << <<"g", "o", "o", "g", "l", "e">>, <<"1", "8", "d">>, <<"H", "o">> >> }
CacheUsers == {"u1", "constructor", "__proto__"}
CacheSummaries ==
    { JsObject(Assign([summary_bullets |-> "['a']", action_items |-> "[]", urgency |-> "'high'"],
                      ModelTags("undefined"))) }

\* const key = getCacheKey(provider, messageId, body), for each triple
CacheKeys == [t \in CacheTriples |-> getCacheKey(t[1], t[2], t[3])]

\* A call that has just begun: db.read() is reading the file.
NewOp(kind, triple, user, summary, seen) ==
    [kind |-> kind, triple |-> triple, user |-> user, summary |-> summary,
     pc |-> "reading", snap |-> NullData, before |-> NullData, after |-> NullData,
     at |-> 0, fired |-> 0, ret |-> JsUndefined, seen |-> seen]

\* steno's Writer: one write at a time; a write issued meanwhile replaces
\* the data waiting to be written next.
IdleWriter ==
    [locked |-> FALSE, cur |-> NullData, owner |-> 0, prev |-> {},
     hasNext |-> FALSE, nextData |-> NullData, next |-> {}]
WriterWrite(w, doc, i) ==
    IF ~w.locked
    THEN [w EXCEPT !.locked = TRUE, !.cur = doc, !.owner = i]
    ELSE [w EXCEPT !.hasNext = TRUE, !.nextData = doc, !.next = @ \cup {i}]

\* An entry of the file the process starts with, cached at the first instant.
InitialFiles ==
    LET OldTriple == CHOOSE t \in CacheTriples : t[2] = <<"1", "8", "c">>
        OldEntry == StringifyEntry(Entry(JsObject(Assign(Spread(Fallback), MiniTags)), Clock[1]))
    IN { NullData, DefaultStore, Store(Put(<<>>, CacheKeys[OldTriple], OldEntry), <<>>) }

\* The module has loaded: initDB() has begun.
CacheInit ==
    /\ lowdbApi \in {"v5", "v6"}
    /\ clock = 1
    /\ file \in InitialFiles
    /\ dbData = LowInitialData(lowdbApi)
    /\ ops = << NewOp("initDB", <<>>, "", JsUndefined, {}) >>
    /\ writer = IdleWriter

\* The module is not loaded.
CacheIdle ==
    /\ lowdbApi = "v6"
    /\ clock = 1
    /\ file = NullData
    /\ dbData = NullData
    /\ ops = <<>>
    /\ writer = IdleWriter

\* Date.now() and new Date() give an instant not before the last one given;
\* clock is its position in Clock.
LaterInstants == clock..Len(Clock)

\* The calls that have returned or thrown; each call records them as seen
\* when it begins.
Settled == {j \in 1..Len(ops) : ops[j].pc \in {"done", "thrown"}}

\* The calls of one function.
Kind(k) == {i \in 1..Len(ops) : ops[i].kind = k}

MaxCalls == 2

\* Nothing awaits the promise of a cleanOldCache the timer calls: when the
\* function throws, the rejection is unhandled and ends the process, and
\* with it every call in flight, every write not yet landed and the timer.
Running == \A i \in Kind("cleanOldCache") : ops[i].pc # "thrown"

\* The timer fires a day after the module has loaded, at the earliest, and
\* a day after it fired last: the instants the clock can show when it does.
TimerInstants ==
    {c \in LaterInstants :
        /\ ~Before(Clock[c], Later(Clock[1], 1, 0))
        /\ \A i \in Kind("cleanOldCache") :
               c = Len(Clock) \/ ~Before(Clock[c], Later(Clock[ops[i].fired], 1, 0))}

\* The sweeps that can be in flight at a time.
MaxSweeps == 2

\* A caller calls one of the exported functions, or the daily timer calls
\* cleanOldCache: the function runs up to its await of db.read().
CanCall == Running /\ ops # <<>> /\ Len(ops) <= MaxCalls

getCachedCall(t) ==
    /\ CanCall
    /\ ops' = Append(ops, NewOp("getCached", t, "", JsUndefined, Settled))
    /\ UNCHANGED <<lowdbApi, clock, file, dbData, writer, notCache>>

setCachedCall(t, summary) ==
    /\ CanCall
    /\ ops' = Append(ops, NewOp("setCached", t, "", summary, Settled))
    /\ UNCHANGED <<lowdbApi, clock, file, dbData, writer, notCache>>

getLastOpenCall(u) ==
    /\ CanCall
    /\ ops' = Append(ops, NewOp("getLastOpen", <<>>, u, JsUndefined, Settled))
    /\ UNCHANGED <<lowdbApi, clock, file, dbData, writer, notCache>>

setLastOpenCall(u) ==
    /\ CanCall
    /\ ops' = Append(ops, NewOp("setLastOpen", <<>>, u, JsUndefined, Settled))
    /\ UNCHANGED <<lowdbApi, clock, file, dbData, writer, notCache>>

cleanOldCacheCall(c) ==
    /\ CanCall
    /\ c \in TimerInstants
    /\ clock' = c
    /\ ops' = Append(ops, [NewOp("cleanOldCache", <<>>, "", JsUndefined, Settled)
                               EXCEPT !.fired = c])
    /\ UNCHANGED <<lowdbApi, file, dbData, writer, notCache>>

\* TextFile.read of call i: readFile takes the content of the file.
ReadFile(i) ==
    /\ Running
    /\ ops[i].pc = "reading"
    /\ ops' = [ops EXCEPT ![i].pc = "read", ![i].snap = JSONFileRead(file)]
    /\ UNCHANGED <<lowdbApi, clock, file, dbData, writer, notCache>>

\* await db.write() issued by call i with db.data = data: Low.write writes
\* nothing when data is null, and the call goes on at once.
Write(i, data, op) ==
    IF data.null
    THEN /\ ops' = [ops EXCEPT ![i] = [op EXCEPT !.pc = "done"]]
         /\ UNCHANGED writer
    ELSE /\ ops' = [ops EXCEPT ![i] = [op EXCEPT !.pc = "writing"]]
         /\ writer' = WriterWrite(writer, Stringify(data), i)

\* db.read() of call i resolves: db.data is what LowRead gives.
AfterRead(i, kind) ==
    /\ Running
    /\ ops[i].kind = kind
    /\ ops[i].pc = "read"

\* initDB from db.read() to its await of db.write().
initDBAfterRead(i) ==
    /\ AfterRead(i, "initDB")
    /\ LET before == LowRead(lowdbApi, dbData, ops[i].snap)
           after == IF before.null THEN DefaultStore ELSE before
       IN /\ dbData' = after
          /\ Write(i, after, [ops[i] EXCEPT !.snap = NullData])
    /\ UNCHANGED <<lowdbApi, clock, file, notCache>>

\* getCached from db.read() to its return.
getCachedAfterRead(i) ==
    /\ AfterRead(i, "getCached")
    /\ LET before == LowRead(lowdbApi, dbData, ops[i].snap)
           key == CacheKeys[ops[i].triple]
           op == [ops[i] EXCEPT !.snap = NullData]
       IN /\ dbData' = before
          /\ IF before.null \/ ~before.summaries.has
             THEN ops' = [ops EXCEPT ![i] = [op EXCEPT !.pc = "thrown"]]
             ELSE ops' = [ops EXCEPT ![i] =
                      [op EXCEPT !.pc = "done",
                                 !.ret = IF key \in DOMAIN before.summaries.map
                                         THEN [type |-> "object",
                                               fields |-> before.summaries.map[key].fields,
                                               cachedAt |-> before.summaries.map[key].cachedAt]
                                         ELSE JsNull]]
    /\ UNCHANGED <<lowdbApi, clock, file, writer, notCache>>

\* setCached from db.read() to its await of db.write().
setCachedAfterRead(i, c) ==
    /\ AfterRead(i, "setCached")
    /\ clock' = c
    /\ LET before == LowRead(lowdbApi, dbData, ops[i].snap)
           key == CacheKeys[ops[i].triple]
           op == [ops[i] EXCEPT !.snap = NullData, !.before = before, !.at = c]
       IN IF before.null \/ ~before.summaries.has
          THEN /\ dbData' = before
               /\ ops' = [ops EXCEPT ![i] = [op EXCEPT !.pc = "thrown", !.after = before]]
               /\ UNCHANGED writer
          ELSE LET after == [before EXCEPT !.summaries.map =
                                 Put(@, key, Entry(ops[i].summary, Clock[c]))]
               IN /\ dbData' = after
                  /\ Write(i, after, [op EXCEPT !.after = after])
    /\ UNCHANGED <<lowdbApi, file, notCache>>

\* The properties a plain object inherits from Object.prototype, each with
\* the value a read of it gives.
ObjectPrototype ==
    [p \in {"constructor", "hasOwnProperty", "isPrototypeOf", "propertyIsEnumerable",
            "toLocaleString", "toString", "valueOf", "__defineGetter__",
            "__defineSetter__", "__lookupGetter__", "__lookupSetter__"} |->
         [type |-> "function", fields |-> NoFields,
          value |-> IF p = "constructor" THEN "Object" ELSE p]]
    @@ [p \in {"__proto__"} |-> [type |-> "object", fields |-> NoFields,
                                 value |-> "Object.prototype"]]

\* getLastOpen from db.read() to its return: db.data.lastOpen[userId] ||
\* null is the timestamp of an own property; a name the object does not
\* have is looked up in Object.prototype.
getLastOpenAfterRead(i) ==
    /\ AfterRead(i, "getLastOpen")
    /\ LET before == LowRead(lowdbApi, dbData, ops[i].snap)
           op == [ops[i] EXCEPT !.snap = NullData]
           lastOpenGet(m, userId) ==
               IF userId \in DOMAIN m
               THEN [type |-> "string", fields |-> NoFields, value |-> m[userId]]
               ELSE IF userId \in DOMAIN ObjectPrototype THEN ObjectPrototype[userId]
               ELSE JsNull
       IN /\ dbData' = before
          /\ IF before.null \/ ~before.lastOpen.has
             THEN ops' = [ops EXCEPT ![i] = [op EXCEPT !.pc = "thrown"]]
             ELSE ops' = [ops EXCEPT ![i] =
                      [op EXCEPT !.pc = "done",
                                 !.ret = lastOpenGet(before.lastOpen.map, ops[i].user)]]
    /\ UNCHANGED <<lowdbApi, clock, file, writer, notCache>>

\* setLastOpen from db.read() to its await of db.write(): the setter of
\* __proto__ ignores a value that is not an object, any other name becomes
\* an own property.
setLastOpenAfterRead(i, c) ==
    /\ AfterRead(i, "setLastOpen")
    /\ clock' = c
    /\ LET lastOpenSet(m, userId, timestamp) ==
               IF userId = "__proto__" /\ userId \notin DOMAIN m THEN m
               ELSE Put(m, userId, timestamp)
           before == LowRead(lowdbApi, dbData, ops[i].snap)
           op == [ops[i] EXCEPT !.snap = NullData, !.before = before, !.at = c]
       IN IF before.null \/ ~before.lastOpen.has
          THEN /\ dbData' = before
               /\ ops' = [ops EXCEPT ![i] = [op EXCEPT !.pc = "thrown", !.after = before]]
               /\ UNCHANGED writer
          ELSE LET after == [before EXCEPT !.lastOpen.map =
                                 lastOpenSet(@, ops[i].user, toISOString(Clock[c]))]
               IN /\ dbData' = after
                  /\ Write(i, after, [op EXCEPT !.after = after])
    /\ UNCHANGED <<lowdbApi, file, notCache>>

\* cleanOldCache from db.read() to its await of db.write().
cleanOldCacheAfterRead(i, c) ==
    /\ AfterRead(i, "cleanOldCache")
    /\ clock' = c
    /\ LET before == LowRead(lowdbApi, dbData, ops[i].snap)
           op == [ops[i] EXCEPT !.snap = NullData, !.before = before, !.at = c]
       IN IF before.null \/ ~before.summaries.has
          THEN /\ dbData' = before
               /\ ops' = [ops EXCEPT ![i] = [op EXCEPT !.pc = "thrown", !.after = before]]
               /\ UNCHANGED writer
          ELSE LET after == [before EXCEPT !.summaries.map = Sweep(@, Clock[c])]
               IN /\ dbData' = after
                  /\ Write(i, after, [op EXCEPT !.after = after])
    /\ UNCHANGED <<lowdbApi, file, notCache>>

\* The write in progress replaces the file.  The calls whose data it
\* carried go on to their return; if data is waiting the next write
\* begins, else the call that began the series returns too.
WriteLand ==
    /\ Running
    /\ writer.locked
    /\ file' = writer.cur
    /\ LET resolved == writer.prev \cup (IF writer.hasNext THEN {} ELSE {writer.owner})
       IN ops' = [j \in 1..Len(ops) |->
                     IF j \in resolved THEN [ops[j] EXCEPT !.pc = "done"] ELSE ops[j]]
    /\ writer' = IF writer.hasNext
                 THEN [writer EXCEPT !.cur = writer.nextData, !.prev = writer.next,
                                     !.hasNext = FALSE, !.nextData = NullData, !.next = {}]
                 ELSE IdleWriter
    /\ UNCHANGED <<lowdbApi, clock, dbData, notCache>>

CacheNext ==
    \/ \E t \in CacheTriples : getCachedCall(t)
    \/ \E t \in CacheTriples, s \in CacheSummaries : setCachedCall(t, s)
    \/ \E u \in CacheUsers : getLastOpenCall(u)
    \/ \E u \in CacheUsers : setLastOpenCall(u)
    \/ \E c \in LaterInstants : cleanOldCacheCall(c)
    \/ \E i \in 1..Len(ops) : ReadFile(i)
    \/ \E i \in 1..Len(ops) : initDBAfterRead(i)
    \/ \E i \in 1..Len(ops) : getCachedAfterRead(i)
    \/ \E i \in 1..Len(ops), c \in LaterInstants : setCachedAfterRead(i, c)
    \/ \E i \in 1..Len(ops) : getLastOpenAfterRead(i)
    \/ \E i \in 1..Len(ops), c \in LaterInstants : setLastOpenAfterRead(i, c)
    \/ \E i \in 1..Len(ops), c \in LaterInstants : cleanOldCacheAfterRead(i, c)
    \/ WriteLand

\* A timer that fires once (setTimeout in place of setInterval).
cleanOldCacheTimerOnce(c) ==
    /\ Running /\ ops # <<>>
    /\ c \in TimerInstants
    /\ clock' = c
    /\ Kind("cleanOldCache") = {}
    /\ ops' = Append(ops, [NewOp("cleanOldCache", <<>>, "", JsUndefined, Settled)
                               EXCEPT !.fired = c])
    /\ UNCHANGED <<lowdbApi, file, dbData, writer, notCache>>

\* setInterval(cleanOldCache, 24 hours): as long as the process runs the
\* timer fires again and again, with or without calls of the exported
\* functions and whether or not the sweep before has settled.  The record
\* of a settled sweep is reused for the new call, so a sweep records as
\* seen the settled calls of the other functions only; up to MaxSweeps
\* sweeps are in flight together.
cleanOldCacheTimer(c) ==
    /\ Running /\ ops # <<>>
    /\ c \in TimerInstants
    /\ clock' = c
    /\ LET sweep == [NewOp("cleanOldCache", <<>>, "", JsUndefined,
                           Settled \ Kind("cleanOldCache")) EXCEPT !.fired = c]
       IN IF Kind("cleanOldCache") \cap Settled # {}
          THEN LET i == CHOOSE i \in Kind("cleanOldCache") \cap Settled :
                            \A j \in Kind("cleanOldCache") \cap Settled : i <= j
               IN ops' = [ops EXCEPT ![i] = sweep]
          ELSE /\ Cardinality(Kind("cleanOldCache")) < MaxSweeps
               /\ ops' = Append(ops, sweep)
    /\ UNCHANGED <<lowdbApi, file, dbData, writer, notCache>>

\* The store with its timer: at most one call of setCached, made once
\* initDB has returned and for a message the file has no entry of, and the
\* sweeps of the timer; between two readings of the time either no time
\* passes or the rest of Clock.
SweepNext ==
    \/ \E t \in CacheTriples, s \in CacheSummaries :
          /\ Kind("setCached") = {} /\ 1 \in Settled
          /\ t[2] = <<"1", "8", "d">> /\ t[3] = <<"H", "i">>
          /\ setCachedCall(t, s)
    \/ \E c \in {clock, Len(Clock)} : cleanOldCacheTimer(c)
    \/ \E i \in 1..Len(ops) : ReadFile(i)
    \/ \E i \in 1..Len(ops) : initDBAfterRead(i)
    \/ \E i \in 1..Len(ops), c \in {clock, Len(Clock)} : setCachedAfterRead(i, c)
    \/ \E i \in 1..Len(ops), c \in {clock, Len(Clock)} : cleanOldCacheAfterRead(i, c)
    \/ WriteLand

-----------------------------------------------------------------------------
(* The server, src/server.js: the users the Google sign-in creates and the  *)
(* scheduled email check.  users is the Map in insertion order, each user   *)
(* [id, accounts]; emailCache gives for each address [has, emails], has     *)
(* telling whether the Map has the key.  A run is one call of               *)
(* checkAllUsersEmails; its tasks are the per-message promises of           *)
(* fetchGmailMessages, by position of the user, position of the account     *)
(* and position of the message in the list.  An email is [id, summary, account]: the fields of the   *)
(* returned object that depend on more than the message itself.  A task     *)
(* that is done records in nth how many tasks of its run were done by       *)
(* then, itself included.  A run iterates the array user.accounts was when  *)
(* the loop of the user began (run.accounts): POST /api/accounts/remove     *)
(* assigns a new array, and the sign-in pushes to an array only when the    *)
(* account is not in it, which is never the case of an array a run awaits   *)
(* a fetch of.  A run records in fetched each fetch that settled and in     *)
(* lists, for each user it is done with, the list it had gathered.          *)

\* The addresses Google reports for the people who sign in.
UserIds == {"a@example.com", "b@example.com"}

\* The account the sign-in links (lines 84-89).
GoogleAccount(e) == [provider |-> "google", email |-> e]

\* The unread messages gmail.users.messages.list returns for each account,
\* and what it returns once m1 has been read and m3 has arrived.
Mailbox == [e \in UserIds |-> IF e = "a@example.com" THEN <<"m1", "m2">> ELSE <<"m4">>]
LaterMailbox == [e \in UserIds |-> IF e = "a@example.com" THEN <<"m2", "m3">> ELSE <<"m4">>]

Messages == {"m1", "m2", "m3", "m4"}

\* users.get(id): the position of the user in users, 0 for undefined.
UserAt(us, id) ==
    IF \E u \in 1..Len(us) : us[u].id = id
    THEN CHOOSE u \in 1..Len(us) : us[u].id = id
    ELSE 0

\* GET /auth/callback/google goes on after userinfo.get settled: on an
\* error the request is redirected and nothing changes; else the user
\* whose key is the address is created if the Map has none, and the google
\* account of the address is pushed to the user's accounts unless it is
\* there (its tokens are replaced then).
authCallbackGoogle(outcome, e) ==
    /\ IF outcome = "error" THEN UNCHANGED users
       ELSE LET u == UserAt(users, e) IN
            IF u = 0
            THEN users' = Append(users, [id |-> e, accounts |-> <<GoogleAccount(e)>>])
            ELSE IF \E i \in 1..Len(users[u].accounts) :
                        users[u].accounts[i] = GoogleAccount(e)
            THEN UNCHANGED users
            ELSE users' = [users EXCEPT ![u].accounts = Append(@, GoogleAccount(e))]
    /\ UNCHANGED <<emailCache, runs, deletes, notRequests>>

\* What generateEmailSummary returns: the text of the reply, or the text
\* of its catch block.
SummaryText(outcome) ==
    IF outcome = "ok" THEN "summary" ELSE "Unable to generate summary"

\* The catch block of fetchGmailMessages letting the error through.
fetchGmailMessagesRethrow == [threw |-> TRUE, emails |-> <<>>]

\* The catch block of fetchGmailMessages: the error is logged, [] returned.
fetchGmailMessagesCatch == [threw |-> FALSE, emails |-> <<>>]

\* The position of the next google account after position i, 0 if none.
NextGoogle(accounts, i) ==
    IF \E j \in (i + 1)..Len(accounts) : accounts[j].provider = "google"
    THEN CHOOSE j \in (i + 1)..Len(accounts) :
             /\ accounts[j].provider = "google"
             /\ \A k \in (i + 1)..(j - 1) : accounts[k].provider # "google"
    ELSE 0

\* The runs that have ended; each run records them as seen when it begins.
Ended == {r \in 1..Len(runs) : runs[r].pc = "ended"}

\* checkAllUsersEmails storing its list whatever its length.
emailCacheSetAlways(cache, id, all) == [cache EXCEPT ![id] = [has |-> TRUE, emails |-> all]]

\* if (allEmails.length > 0) emailCache.set(userId, allEmails)
emailCacheSet(cache, id, all) ==
    IF Len(all) > 0 THEN [cache EXCEPT ![id] = [has |-> TRUE, emails |-> all]]
    ELSE cache

\* The loop over users from the user after run.user on, up to the first
\* await: a user without google account is done with at once, its list
\* empty and nothing stored; the first google account of the first user
\* that has one is fetched; past the last user of the Map the run ends.
Advance(run, us) ==
    LET later == {j \in (run.user + 1)..Len(us) : NextGoogle(us[j].accounts, 0) # 0}
        to == IF later = {} THEN Len(us) + 1
              ELSE CHOOSE j \in later : \A k \in later : j <= k
        passed == [n \in 1..(to - run.user - 1) |->
                      [user |-> us[run.user + n].id, emails |-> <<>>, caught |-> FALSE]]
    IN IF later = {}
       THEN [run EXCEPT !.pc = "ended", !.user = Len(us), !.acc = 0, !.accounts = <<>>,
                        !.allEmails = <<>>, !.ids = <<>>, !.lists = @ \o passed]
       ELSE [run EXCEPT !.pc = "list", !.user = to, !.acc = NextGoogle(us[to].accounts, 0),
                        !.accounts = us[to].accounts, !.allEmails = <<>>, !.ids = <<>>,
                        !.lists = @ \o passed]

\* checkAllUsersEmails goes on after fetchGmailMessages settled with
\* `settled` for the account at run.acc of the user at run.user
\* (run.fetched records it, with what became of the fetch: failed, none,
\* messages): the emails are appended and the next google account is
\* fetched; after the last one the list is stored if it is not empty, and
\* the loop goes on to the next user.  An error thrown in the loop body
\* reaches the catch of the user's iteration, which logs it.
Continue(r, run, settled, outcome) ==
    LET id == users[run.user].id
        all == run.allEmails \o settled.emails
        next == NextGoogle(run.accounts, run.acc)
        log == Append(run.fetched, [user |-> id, acc |-> run.acc,
                                     account |-> run.accounts[run.acc].email,
                                     ids |-> run.ids, outcome |-> outcome,
                                     emails |-> settled.emails])
    IN IF settled.threw
       THEN /\ runs' = [runs EXCEPT ![r] =
                  Advance([run EXCEPT !.fetched = log,
                                      !.lists = Append(@, [user |-> id, emails |-> run.allEmails,
                                                           caught |-> TRUE])], users)]
            /\ UNCHANGED emailCache
       ELSE IF next # 0
       THEN /\ runs' = [runs EXCEPT ![r] = [run EXCEPT !.pc = "list", !.acc = next, !.ids = <<>>,
                                                       !.allEmails = all, !.fetched = log]]
            /\ UNCHANGED emailCache
       ELSE /\ runs' = [runs EXCEPT ![r] =
                  Advance([run EXCEPT !.fetched = log,
                                      !.lists = Append(@, [user |-> id, emails |-> all,
                                                           caught |-> FALSE])], users)]
            /\ emailCache' = emailCacheSet(emailCache, id, all)

NoTasks == [k \in {} |-> [id |-> "", pc |-> "get", summary |-> "", nth |-> 0]]

MaxRuns == 2

\* The cron schedule fires: checkAllUsersEmails runs up to its first await,
\* whether or not an earlier run has ended.
checkAllUsersEmails ==
    /\ Len(runs) < MaxRuns
    /\ runs' = Append(runs, Advance([pc |-> "start", user |-> 0, acc |-> 0, accounts |-> <<>>,
                                     allEmails |-> <<>>, ids |-> <<>>, fetched |-> <<>>,
                                     lists |-> <<>>, tasks |-> NoTasks, seen |-> Ended],
                                    users))
    /\ UNCHANGED <<users, emailCache, deletes, notRequests>>

\* The address of the account run r is fetching.
Fetching(r) == runs[r].accounts[runs[r].acc].email

\* gmail.users.messages.list settles in run r: it rejects, or it resolves
\* without the messages property, or with the array of the unread
\* messages of the account, for each element of which
\* gmail.users.messages.get is called; Promise.all of an empty array
\* resolves at once with no email.
fetchGmailMessagesList(r, outcome, ids) ==
    /\ runs[r].pc = "list"
    /\ LET run == [runs[r] EXCEPT !.ids = IF outcome = "messages" THEN ids ELSE <<>>]
       IN CASE outcome = "error" -> Continue(r, run, fetchGmailMessagesCatch, "failed")
            [] outcome = "none" -> Continue(r, run, [threw |-> FALSE, emails |-> <<>>], "none")
            [] outcome = "messages" /\ ids = <<>> ->
                 Continue(r, run, [threw |-> FALSE, emails |-> <<>>], "messages")
            [] OTHER ->
                 /\ runs' = [runs EXCEPT ![r] =
                        [run EXCEPT !.pc = "messages",
                                    !.tasks = [k \in DOMAIN run.tasks
                                                     \cup {<<run.user, run.acc, n>> : n \in 1..Len(ids)} |->
                                                  IF k \in DOMAIN run.tasks THEN run.tasks[k]
                                                  ELSE [id |-> ids[k[3]], pc |-> "get",
                                                        summary |-> "", nth |-> 0]]]]
                 /\ UNCHANGED emailCache
    /\ UNCHANGED <<users, deletes, notRequests>>

\* The fetch task k belongs to is the one run r awaits.
Awaited(r, k) == runs[r].pc = "messages" /\ runs[r].user = k[1] /\ runs[r].acc = k[2]

\* gmail.users.messages.get settles for the message of task k: on success
\* the message is decoded and generateEmailSummary posts its request; on
\* failure Promise.all rejects and, if the run still awaits it,
\* fetchGmailMessages reaches its catch block.
fetchGmailMessagesGet(r, k, outcome) ==
    /\ k \in DOMAIN runs[r].tasks
    /\ runs[r].tasks[k].pc = "get"
    /\ LET run == [runs[r] EXCEPT !.tasks[k].pc = IF outcome = "ok" THEN "post" ELSE "failed"]
       IN IF outcome # "ok" /\ Awaited(r, k)
          THEN Continue(r, run, fetchGmailMessagesCatch, "failed")
          ELSE /\ runs' = [runs EXCEPT ![r] = run]
               /\ UNCHANGED emailCache
    /\ UNCHANGED <<users, deletes, notRequests>>

\* The emails pushed to a list as each one is completed.
EmailsAsCompleted(run) ==
    LET ids == run.ids
        nthOf(n) == run.tasks[<<run.user, run.acc, n>>].nth
        place(n) == Cardinality({k \in 1..Len(ids) : nthOf(k) <= nthOf(n)})
    IN [p \in 1..Len(ids) |->
           LET n == CHOOSE k \in 1..Len(ids) : place(k) = p
           IN [id |-> ids[n], summary |-> run.tasks[<<run.user, run.acc, n>>].summary,
               account |-> run.accounts[run.acc].email]]

\* The emails Promise.all resolves with in the fetch the run awaits: one
\* per message, in list order.
Emails(run) ==
    [n \in 1..Len(run.ids) |->
        [id |-> run.ids[n], summary |-> run.tasks[<<run.user, run.acc, n>>].summary,
         account |-> run.accounts[run.acc].email]]

\* The request of generateEmailSummary settles for the message of task k,
\* the email object is built; when it is the last one of a fetch the run
\* awaits, Promise.all resolves and fetchGmailMessages returns the emails.
generateEmailSummary(r, k, outcome) ==
    /\ k \in DOMAIN runs[r].tasks
    /\ runs[r].tasks[k].pc = "post"
    /\ LET nth == Cardinality({j \in DOMAIN runs[r].tasks : runs[r].tasks[j].pc = "done"}) + 1
           run == [runs[r] EXCEPT !.tasks[k] =
                       [id |-> @.id, pc |-> "done", summary |-> SummaryText(outcome),
                        nth |-> nth]]
       IN IF Awaited(r, k)
             /\ \A n \in 1..Len(run.ids) : run.tasks[<<k[1], k[2], n>>].pc = "done"
          THEN Continue(r, run, [threw |-> FALSE, emails |-> Emails(run)], "messages")
          ELSE /\ runs' = [runs EXCEPT ![r] = run]
               /\ UNCHANGED emailCache
    /\ UNCHANGED <<users, deletes, notRequests>>

\* The module has loaded: the two Maps are empty.
ServerInit ==
    /\ users = <<>>
    /\ emailCache = [id \in UserIds |-> [has |-> FALSE, emails |-> <<>>]]
    /\ runs = <<>>

\* The server is not running: no user, no run.
ServerIdle ==
    /\ users = <<>>
    /\ emailCache = <<>>
    /\ runs = <<>>

\* The tasks of the runs.
Tasks == UNION {{<<r, k>> : k \in DOMAIN runs[r].tasks} : r \in 1..Len(runs)}

\* The people sign in, the schedule fires, and the requests of the runs
\* settle; each mailbox holds the same unread messages throughout.
ServerNext ==
    \/ \E o \in {"ok", "error"}, e \in UserIds : authCallbackGoogle(o, e)
    \/ checkAllUsersEmails
    \/ \E r \in 1..Len(runs), o \in {"error", "none", "messages"} :
          runs[r].pc = "list" /\ fetchGmailMessagesList(r, o, Mailbox[Fetching(r)])
    \/ \E t \in Tasks, o \in {"ok", "error"} : fetchGmailMessagesGet(t[1], t[2], o)
    \/ \E t \in Tasks, o \in {"ok", "error"} : generateEmailSummary(t[1], t[2], o)

\* The users Maps checkAllUsersEmails is run over, taken as a function of
\* the Map it iterates: a user with two linked google accounts, in either
\* order, alone or followed by a user with one.  The loop of lines 363-369
\* is written for such a user; the sign-in of lines 64-96 itself links to
\* a user only the account of the user's own address.
LinkedUsers ==
    LET a == GoogleAccount("a@example.com")
        b == GoogleAccount("b@example.com")
    IN { <<[id |-> "a@example.com", accounts |-> <<a, b>>]>>,
         <<[id |-> "a@example.com", accounts |-> <<b, a>>]>>,
         <<[id |-> "a@example.com", accounts |-> <<a, b>>],
           [id |-> "b@example.com", accounts |-> <<b>>]>> }

\* checkAllUsersEmails is about to run over one of these Maps.
OrchestratorInit ==
    /\ users \in LinkedUsers
    /\ emailCache = [id \in UserIds |-> [has |-> FALSE, emails |-> <<>>]]
    /\ runs = <<>>

\* The schedule fires, one run after the other, and the requests of the
\* runs settle.
OrchestratorNext ==
    \/ (\A r \in 1..Len(runs) : runs[r].pc = "ended") /\ checkAllUsersEmails
    \/ \E r \in 1..Len(runs), o \in {"error", "none", "messages"} :
          runs[r].pc = "list" /\ fetchGmailMessagesList(r, o, Mailbox[Fetching(r)])
    \/ \E t \in Tasks, o \in {"ok", "error"} : fetchGmailMessagesGet(t[1], t[2], o)
    \/ \E t \in Tasks, o \in {"ok", "error"} : generateEmailSummary(t[1], t[2], o)

-----------------------------------------------------------------------------
(* The routes of src/server.js that write emailCache or user.accounts, next *)
(* to the scheduled check.  A delete request is [user, pc, emailIds,        *)
(* emails, groups, seen]: user is the position of the user the token of     *)
(* the request belongs to, emails the list the handler read at line 153,    *)
(* groups the entries of emailsByAccount not yet trashed, seen the lists    *)
(* the runs had gathered when the request arrived.                          *)

\* GET /api/emails: the emails of the response.
getEmails(cache, id) == IF cache[id].has THEN cache[id].emails ELSE <<>>

\* The bodies of the delete requests.
DeleteRequests == { {"m1"}, {"m2", "m3"} }

MaxDeletes == 1

\* Lines 158-163 throw: emailsByAccount is a plain object, so for an account
\* named like a property of Object.prototype line 159 finds the inherited
\* value and line 162 calls push on it.
emailsByAccountThrows(toDelete) ==
    \E n \in 1..Len(toDelete) : toDelete[n].account \in DOMAIN ObjectPrototype

\* Object.entries(emailsByAccount) of emailsToDelete: for each account the
\* ids of its emails; the accounts that are array indices come first, in
\* ascending order, then the others in the order of their first email.
emailsByAccount(toDelete) ==
    LET firsts == SelectSeq([n \in 1..Len(toDelete) |-> n],
                            LAMBDA n : \A k \in 1..(n - 1) :
                                           toDelete[k].account # toDelete[n].account)
        names == [g \in 1..Len(firsts) |-> toDelete[firsts[g]].account]
        \* a property name is an array index when it is the decimal numeral,
        \* without leading zero, of a number up to 2^32 - 2; numerals are
        \* compared by length, then digit by digit
        Digits == <<"0", "1", "2", "3", "4", "5", "6", "7", "8", "9">>
        At(name, i) == SubSeq(name, i, i)
        DigitAt(name, i) == CHOOSE v \in 1..10 : Digits[v] = At(name, i)
        Less(a, b) ==
            \/ Len(a) < Len(b)
            \/ /\ Len(a) = Len(b)
               /\ \E i \in 1..Len(a) :
                      /\ SubSeq(a, 1, i - 1) = SubSeq(b, 1, i - 1)
                      /\ DigitAt(a, i) < DigitAt(b, i)
        IsArrayIndex(name) ==
            /\ Len(name) > 0
            /\ \A i \in 1..Len(name) : \E v \in 1..10 : Digits[v] = At(name, i)
            /\ Len(name) = 1 \/ At(name, 1) # "0"
            /\ ~Less("4294967294", name)
        keys == SortSeq(SelectSeq(names, IsArrayIndex), Less)
                \o SelectSeq(names, LAMBDA a : ~IsArrayIndex(a))
    IN [g \in 1..Len(keys) |->
           LET of == SelectSeq(toDelete, LAMBDA e : e.account = keys[g])
           IN [account |-> keys[g], ids |-> [n \in 1..Len(of) |-> of[n].id]]]

\* The loop of line 166 from the entry at the head of groups: the entries
\* whose account is not linked, or is not a google account, are passed
\* over; what is left begins with the entry deleteGmailMessages is called
\* for.
RECURSIVE NextGroup(_, _)
NextGroup(groups, accounts) ==
    IF groups = <<>> THEN <<>>
    ELSE LET found == SelectSeq(accounts, LAMBDA acc : acc.email = groups[1].account)
         IN IF found # <<>> /\ found[1].provider = "google" THEN groups
            ELSE NextGroup(Tail(groups), accounts)

\* Lines 174-175: the list read at line 153 without the deleted emails is
\* stored.
RemoveFromCache(cache, id, emails, emailIds) ==
    [cache EXCEPT ![id] =
        [has |-> TRUE, emails |-> SelectSeq(emails, LAMBDA e : e.id \notin emailIds)]]

\* The lists the runs have gathered: <<run, position in its lists>>.
Gathered == UNION {{<<r, n>> : n \in 1..Len(runs[r].lists)} : r \in 1..Len(runs)}

\* POST /api/emails/delete arrives with the token of the user at position
\* u: the handler runs up to the first messages.trash, or to its response
\* if there is nothing to trash or the grouping throws (status 500).
deleteEmails(u, emailIds) ==
    /\ u \in 1..Len(users)
    /\ Len(deletes) < MaxDeletes
    /\ LET emails == getEmails(emailCache, users[u].id)
           emailsToDelete == SelectSeq(emails, LAMBDA e : e.id \in emailIds)
           threw == emailsByAccountThrows(emailsToDelete)
           groups == IF threw THEN <<>>
                     ELSE NextGroup(emailsByAccount(emailsToDelete), users[u].accounts)
           request == [user |-> u,
                       pc |-> IF threw THEN "failed" ELSE IF groups = <<>> THEN "done" ELSE "trash",
                       emailIds |-> emailIds, emails |-> emails, groups |-> groups,
                       seen |-> Gathered]
       IN /\ deletes' = Append(deletes, request)
          /\ emailCache' = IF groups = <<>> /\ ~threw
                           THEN RemoveFromCache(emailCache, users[u].id, emails, emailIds)
                           ELSE emailCache
    /\ UNCHANGED <<users, runs, notRequests>>

\* messages.trash settles for request d: a rejection is rethrown by
\* deleteGmailMessages and answered with status 500; else the next message
\* is trashed, and after the last one the cache is written and the request
\* answered.
deleteGmailMessages(d, outcome) ==
    /\ deletes[d].pc = "trash"
    /\ IF outcome = "error"
       THEN /\ deletes' = [deletes EXCEPT ![d].pc = "failed"]
            /\ UNCHANGED emailCache
       ELSE LET head == deletes[d].groups[1]
                user == users[deletes[d].user]
                groups == IF Len(head.ids) > 1
                          THEN <<[head EXCEPT !.ids = Tail(@)]>> \o Tail(deletes[d].groups)
                          ELSE NextGroup(Tail(deletes[d].groups), user.accounts)
            IN /\ deletes' = [deletes EXCEPT ![d].groups = groups,
                                             ![d].pc = IF groups = <<>> THEN "done" ELSE "trash"]
               /\ emailCache' = IF groups = <<>>
                                THEN RemoveFromCache(emailCache, user.id, deletes[d].emails,
                                                     deletes[d].emailIds)
                                ELSE emailCache
    /\ UNCHANGED <<users, runs, notRequests>>

\* POST /api/accounts/remove arrives with the token of the user at position
\* u and the id of the account at position a of the user's accounts (a = 0:
\* an id no account has): the account leaves user.accounts and the emails
\* of accounts that are not linked leave the cache.
accountsRemove(u, a) ==
    /\ u \in 1..Len(users)
    /\ a \in 0..Len(users[u].accounts)
    /\ LET accounts == [n \in 1..(Len(users[u].accounts) - (IF a = 0 THEN 0 ELSE 1)) |->
                           users[u].accounts[IF a = 0 \/ n < a THEN n ELSE n + 1]]
           updatedEmails == SelectSeq(getEmails(emailCache, users[u].id),
                                      LAMBDA e : \E i \in 1..Len(accounts) :
                                                     accounts[i].email = e.account)
       IN /\ users' = [users EXCEPT ![u].accounts = accounts]
          /\ emailCache' = [emailCache EXCEPT ![users[u].id] =
                                [has |-> TRUE, emails |-> updatedEmails]]
    /\ UNCHANGED <<runs, deletes, notRequests>>

\* No request has arrived.
RequestsIdle == deletes = <<>>

\* The person of the first address signs in; the scheduled check, one run
\* after the other with every messages.get and every summary request
\* succeeding, while mail is read and arrives; and the two routes: one
\* delete request, and removals of the account.
RequestsNext ==
    \/ authCallbackGoogle("ok", "a@example.com")
    \/ (\A r \in 1..Len(runs) : runs[r].pc = "ended") /\ checkAllUsersEmails
    \/ \E r \in 1..Len(runs), o \in {"error", "none", "messages"},
          ids \in {Mailbox[e] : e \in UserIds} \cup {LaterMailbox[e] : e \in UserIds} :
          /\ runs[r].pc = "list"
          /\ ids \in {Mailbox[Fetching(r)], LaterMailbox[Fetching(r)]}
          /\ fetchGmailMessagesList(r, o, ids)
    \/ \E t \in Tasks : fetchGmailMessagesGet(t[1], t[2], "ok")
    \/ \E t \in Tasks : generateEmailSummary(t[1], t[2], "ok")
    \/ \E u \in 1..Len(users), emailIds \in DeleteRequests : deleteEmails(u, emailIds)
    \/ \E d \in 1..Len(deletes), o \in {"ok", "error"} : deleteGmailMessages(d, o)
    \/ \E u \in 1..Len(users), a \in 0..1 : accountsRemove(u, a)

-----------------------------------------------------------------------------
(* The provider adapters, src/providers/outlook.js: the Outlook adapter    *)
(* (lines 1-135) and the Gmail adapter (lines 137-292), one module.  One    *)
(* call of an adapter function at a time; each action is the code between   *)
(* two awaits.  A property the code reads with `|| default` is a text,      *)
(* empty when the provider sent none: undefined and '' take the same        *)
(* branch everywhere.  The module declares function isMarketingEmail twice  *)
(* (lines 8 and 145); function declarations are hoisted and the later one   *)
(* replaces the earlier, so every call in the module, the one of            *)
(* fetchUnreadOutlook included, reaches the declaration of line 145.        *)

marketingKeywords ==
    { <<"u", "n", "s", "u", "b", "s", "c", "r", "i", "b", "e">>, <<"n", "o", "r", "e", "p", "l", "y">>, <<"n", "o", "-", "r", "e", "p", "l", "y">>, <<"n", "e", "w", "s", "l", "e", "t", "t", "e", "r">>,
      <<"p", "r", "o", "m", "o", "t", "i", "o", "n", "a", "l">>, <<"m", "a", "r", "k", "e", "t", "i", "n", "g">>, <<"o", "f", "f", "e", "r">>, <<"s", "a", "l", "e">>, <<"d", "i", "s", "c", "o", "u", "n", "t">>,
      <<"b", "u", "l", "k", " ", "m", "a", "i", "l">>, <<"m", "a", "i", "l", "i", "n", "g", " ", "l", "i", "s", "t">>, <<"c", "l", "i", "c", "k", " ", "h", "e", "r", "e">>, <<"l", "i", "m", "i", "t", "e", "d", " ", "t", "i", "m", "e">> }

\* headers.find(h => h.name === name)?.value || default
HeaderValue(headers, name, default) ==
    IF \E i \in 1..Len(headers) : headers[i].name = name
    THEN LET i == CHOOSE k \in 1..Len(headers) :
                      /\ headers[k].name = name
                      /\ \A j \in 1..(k - 1) : headers[j].name # name
         IN IF headers[i].value = <<>> THEN default ELSE headers[i].value
    ELSE default

\* isMarketingEmail(headers, body), for headers that are an array.
isMarketingEmail(headers, bod) ==
    LET from == HeaderValue(headers, "From", <<>>)
        subj == HeaderValue(headers, "Subject", <<>>)
        combinedText == toLowerCase(from \o <<" ">> \o subj \o <<" ">> \o bod)
    IN \/ \E i \in 1..Len(headers) : headers[i].name = "List-Unsubscribe"
       \/ \E kw \in marketingKeywords : includes(combinedText, kw)
       \/ includes(from, <<"n", "o", "r", "e", "p", "l", "y">>)
       \/ includes(from, <<"n", "o", "-", "r", "e", "p", "l", "y">>)
       \/ includes(from, <<"d", "o", "n", "o", "t", "r", "e", "p", "l", "y">>)

\* Buffer.from(data, 'base64').toString('utf-8').  Decoding base64 stops at
\* the first "=", skips the characters of neither alphabet, and gives a
\* byte for every eight bits, six bits a character, leftover bits dropped.
\* The bytes are decoded as UTF-8: a well-formed sequence is its code
\* point, written in code units; where the bytes are ill-formed, the
\* longest prefix of a well-formed sequence (one byte at least) is replaced
\* by U+FFFD.
Base64ToString(data) ==
    LET Alphabet == <<"A", "B", "C", "D", "E", "F", "G", "H", "I", "J", "K", "L", "M", "N", "O", "P", "Q", "R", "S", "T", "U", "V", "W", "X", "Y", "Z", "a", "b", "c", "d", "e", "f", "g", "h", "i", "j", "k", "l", "m", "n", "o", "p", "q", "r", "s", "t", "u", "v", "w", "x", "y", "z", "0", "1", "2", "3", "4", "5", "6", "7", "8", "9", "+", "/">>
        IsSymbol(c) == c \in {"-", "_"} \/ \E v \in 1..64 : Alphabet[v] = c
        Value(c) == IF c = "-" THEN 62 ELSE IF c = "_" THEN 63
                    ELSE (CHOOSE v \in 1..64 : Alphabet[v] = c) - 1
        \* the decoder reads the low byte of each code unit
        Low(c) == IF IsSymbol(c) \/ c = "=" THEN c ELSE CharOf(CodeUnit(c) % 256)
        \* the values of the symbols before the first "="
        Sextets(low) ==
            LET stop == IF \E i \in 1..Len(low) : low[i] = "="
                        THEN (CHOOSE i \in 1..Len(low) :
                                  low[i] = "=" /\ \A j \in 1..(i - 1) : low[j] # "=") - 1
                        ELSE Len(low)
                sym == SelectSeq(SubSeq(low, 1, stop), IsSymbol)
            IN [q \in 1..Len(sym) |-> Value(sym[q])]
        \* the bytes of the sextets: each whole group of 8 bits
        Bytes(sextet) ==
            LET Sextet(q) == IF q <= Len(sextet) THEN sextet[q] ELSE 0
                Byte(b) == LET q == ((8 * (b - 1)) \div 6) + 1
                               r == (8 * (b - 1)) % 6
                           IN (((Sextet(q) * 64) + Sextet(q + 1)) \div (2 ^ (4 - r))) % 256
            IN [b \in 1..((Len(sextet) * 6) \div 8) |-> Byte(b)]
        \* toString('utf-8') of the bytes
        Utf8Decode(byte) ==
            LET Continues(i, lo, hi) == i <= Len(byte) /\ byte[i] >= lo /\ byte[i] <= hi
                \* <<the code point decoded at byte i, the bytes it takes>>
                Step(i) ==
                    LET b == byte[i]
                        lo == IF b = 224 THEN 160 ELSE IF b = 240 THEN 144 ELSE 128
                        hi == IF b = 237 THEN 159 ELSE IF b = 244 THEN 143 ELSE 191
                    IN IF b < 128 THEN <<b, 1>>
                       ELSE IF b < 194 \/ b > 244 THEN <<65533, 1>>
                       ELSE IF ~Continues(i + 1, lo, hi) THEN <<65533, 1>>
                       ELSE IF b < 224 THEN <<((b - 192) * 64) + (byte[i + 1] - 128), 2>>
                       ELSE IF ~Continues(i + 2, 128, 191) THEN <<65533, 2>>
                       ELSE IF b < 240
                            THEN <<((b - 224) * 4096) + ((byte[i + 1] - 128) * 64)
                                       + (byte[i + 2] - 128), 3>>
                       ELSE IF ~Continues(i + 3, 128, 191) THEN <<65533, 3>>
                       ELSE <<((b - 240) * 262144) + ((byte[i + 1] - 128) * 4096)
                                  + ((byte[i + 2] - 128) * 64) + (byte[i + 3] - 128), 4>>
                RECURSIVE Decode(_)
                Decode(i) == IF i > Len(byte) THEN <<>>
                             ELSE CodeUnits(Step(i)[1]) \o Decode(i + Step(i)[2])
            IN Decode(1)
        \* each stage is computed once, from the value of the stage before
        texts == {Utf8Decode(byte) :
                     byte \in {Bytes(sextet) :
                         sextet \in {Sextets(low) :
                             low \in {[i \in 1..Len(data) |-> Low(data[i])]}}}}
    IN CHOOSE text \in texts : TRUE

\* body.replace(/<[^>]*>/g, '') of line 67: every "<" that has a ">" after
\* it is removed with all that follows up to the first such ">"; the text
\* left is the plain text of an HTML body.
plainBody(bod) ==
    LET RECURSIVE Strip(_)
        Strip(i) ==
            IF i > Len(bod) THEN <<>>
            ELSE IF bod[i] = "<" /\ \E j \in (i + 1)..Len(bod) : bod[j] = ">"
            THEN Strip((CHOOSE j \in (i + 1)..Len(bod) :
                            bod[j] = ">" /\ \A k \in (i + 1)..(j - 1) : bod[k] # ">") + 1)
            ELSE <<bod[i]>> \o Strip(i + 1)
    IN Strip(1)

\* The account the adapters are called with.
ProviderAccount == [email |-> "a@example.com"]

\* The messages a listing holds at most, and the folders of a mailbox.
MaxMessages == 2
MaxFolders == 2

\* What the Graph API answers to the listing of the unread messages.
OutlookMessages ==
    [id : {"AAMk1"},
     from : {<<"a", "n", "n", "@", "e", "x", "a", "m", "p", "l", "e", ".", "c", "o", "m">>, <<"n", "o", "-", "r", "e", "p", "l", "y", "@", "e", "x", "a", "m", "p", "l", "e", ".", "c", "o", "m">>, <<>>},
     subject : {<<"L", "u", "n", "c", "h">>, <<>>},
     body : {<<"<", "p", ">", "s", "e", "e", " ", "y", "o", "u", "<", "/", "p", ">">>, <<"c", "l", "i", "c", "k", " ", "h", "e", "r", "e">>}]

OutlookResponses ==
    {[kind |-> k, value |-> <<>>] : k \in {"error", "malformed", "none"}}
        \cup {[kind |-> "messages", value |-> v] :
                  v \in UNION {[1..n -> OutlookMessages] : n \in 0..MaxMessages}}

\* What the Gmail API answers to messages.list and to messages.get.
GmailListings == {[i \in 1..n |-> ToString(i)] : n \in 0..MaxMessages}

GmailHeaders ==
    { <<[name |-> "From", value |-> <<"a", "n", "n", "@", "e", "x", "a", "m", "p", "l", "e", ".", "c", "o", "m">>],
        [name |-> "Subject", value |-> <<"L", "u", "n", "c", "h">>],
        [name |-> "Date", value |-> <<"1", " ", "J", "a", "n">>]>>,
      <<[name |-> "From", value |-> <<"a", "n", "n", "@", "e", "x", "a", "m", "p", "l", "e", ".", "c", "o", "m">>],
        [name |-> "Subject", value |-> <<"M", "A", "R", "U+212A", "E", "T", "I", "N", "G">>]>>,
      <<[name |-> "From", value |-> <<"S", "h", "o", "p", " ", "<", "n", "o", "-", "r", "e", "p", "l", "y", "@", "e", "x", "a", "m", "p", "l", "e", ".", "c", "o", "m", ">">>],
        [name |-> "Subject", value |-> <<"L", "u", "n", "c", "h">>]>>,
      <<[name |-> "From", value |-> <<"a", "n", "n", "@", "e", "x", "a", "m", "p", "l", "e", ".", "c", "o", "m">>],
        [name |-> "List-Unsubscribe", value |-> <<"<", "m", "a", "i", "l", "t", "o", ":", "u", "@", "e", "x", "a", "m", "p", "l", "e", ".", "c", "o", "m", ">">>]>>,
      <<[name |-> "Subject", value |-> <<"L", "u", "n", "c", "h">>]>>,
      <<>> }

GmailBodies ==
    { [hasParts |-> FALSE, parts |-> <<>>, data |-> <<"S", "G", "V", "s", "b", "G", "8", "=">>],
      [hasParts |-> TRUE,
       parts |-> <<[mimeType |-> "text/html", data |-> <<"P", "H", "A", "+", "b", "2", "s", "8", "L", "3", "A", "+">>],
                   [mimeType |-> "text/plain", data |-> <<"Y", "2", "x", "p", "Y", "2", "s", "g", "a", "G", "V", "y", "Z", "Q", "=", "=">>]>>,
       data |-> <<>>],
      [hasParts |-> FALSE, parts |-> <<>>, data |-> <<"d", "W", "4", "8", "Y", "j", "5", "z", "d", "W", "J", "z", "Y", "3", "J", "p", "Y", "m", "U", "8", "L", "2", "I", "+">>],
      [hasParts |-> FALSE, parts |-> <<>>, data |-> <<"w", "6", "k", "=", "S", "G", "k", "=">>],
      [hasParts |-> TRUE, parts |-> <<>>, data |-> <<>>],
      [hasParts |-> FALSE, parts |-> <<>>, data |-> <<>>] }

NoPayload == [headers |-> <<>>, hasParts |-> FALSE, parts |-> <<>>, data |-> <<>>]

GmailResponses ==
    {[kind |-> k, payload |-> NoPayload] : k \in {"error", "malformed"}}
        \cup {[kind |-> "message",
               payload |-> [headers |-> h, hasParts |-> b.hasParts,
                            parts |-> b.parts, data |-> b.data]] :
                  h \in GmailHeaders, b \in GmailBodies}

\* What the Graph API answers to the listing of the mail folders.
Folders ==
    UNION {[1..n -> [id : {"AQMkf"}, displayName : {"Inbox", "Archive", "archive"}]] :
               n \in 0..MaxFolders}

FolderResponses ==
    {[kind |-> k, value |-> <<>>] : k \in {"error", "malformed", "none"}}
        \cup {[kind |-> "folders", value |-> v] : v \in Folders}

\* The catch block returning what the loop had built.
fetchUnreadCatchPartial(emails) == [threw |-> FALSE, ret |-> emails]

\* The catch block of fetchUnreadOutlook and of fetchUnreadGmail: the
\* error is logged and [] returned, whatever the loop had built.
fetchUnreadCatch(emails) == [threw |-> FALSE, ret |-> <<>>]

\* A call of fetchUnread that ended in `settled` (of the catch block, or of
\* a return statement), with the local emails and the verdicts of
\* isMarketingEmail on the messages it was called on: "true", "false", or
\* "TypeError" for a call that threw.
FetchEnded(adapter, settled, caught, emails, verdicts) ==
    [adapter |-> adapter, pc |-> IF settled.threw THEN "thrown" ELSE "returned",
     ids |-> <<>>, n |-> 0, emails |-> emails, verdicts |-> verdicts,
     caught |-> caught, ret |-> settled.ret]

NoFetch ==
    [adapter |-> "none", pc |-> "idle", ids |-> <<>>, n |-> 0, emails |-> <<>>,
     verdicts |-> <<>>, caught |-> FALSE, ret |-> <<>>]

NoArchive ==
    [adapter |-> "none", pc |-> "idle", folders |-> <<>>, requests |-> <<>>,
     ret |-> FALSE]

\* fetchUnreadOutlook(account) is called and runs up to its await of
\* axios.get.  The function is not among the module's exports, which line
\* 289 replaces: the call is one made from inside the module.
fetchUnreadOutlookCall ==
    /\ fetch.pc = "idle"
    /\ fetch' = [NoFetch EXCEPT !.adapter = "outlook", !.pc = "awaits messages"]
    /\ UNCHANGED <<archive, notProvider>>

\* axios.get settled with resp: a rejection, a response without data, or
\* data whose value is missing or a list of messages.  For the first
\* message of the list the loop calls isMarketingEmail(msg), which calls
\* headers.find on the message: a TypeError, the message being no array,
\* caught at line 80.
fetchUnreadOutlook(resp) ==
    /\ fetch.pc = "awaits messages"
    /\ LET messages == IF resp.kind = "messages" THEN resp.value ELSE <<>>
       IN fetch' =
            CASE resp.kind \in {"error", "malformed"} ->
                     FetchEnded("outlook", fetchUnreadCatch(<<>>), TRUE, <<>>, <<>>)
              [] resp.kind \notin {"error", "malformed"} /\ messages = <<>> ->
                     FetchEnded("outlook", [threw |-> FALSE, ret |-> <<>>], FALSE, <<>>, <<>>)
              [] OTHER ->
                     FetchEnded("outlook", fetchUnreadCatch(<<>>), TRUE, <<>>,
                                <<[adapter |-> "outlook", from |-> messages[1].from,
                                   listed |-> FALSE, marketing |-> "TypeError"]>>)
    /\ UNCHANGED <<archive, notProvider>>

\* fetchUnreadGmail(account, ...) is called and runs up to its await of
\* messages.list.
fetchUnreadGmailCall ==
    /\ fetch.pc = "idle"
    /\ fetch' = [NoFetch EXCEPT !.adapter = "gmail", !.pc = "awaits list"]
    /\ UNCHANGED <<archive, notProvider>>

\* messages.list settled: a rejection, a response without data, data
\* without messages, or the list of ids, for the first of which
\* messages.get is called.
fetchUnreadGmailList(outcome, ids) ==
    /\ fetch.pc = "awaits list"
    /\ fetch' =
         CASE outcome \in {"error", "malformed"} ->
                  FetchEnded("gmail", fetchUnreadCatch(<<>>), TRUE, <<>>, <<>>)
           [] outcome = "none" \/ (outcome = "messages" /\ ids = <<>>) ->
                  FetchEnded("gmail", [threw |-> FALSE, ret |-> <<>>], FALSE, <<>>, <<>>)
           [] OTHER -> [NoFetch EXCEPT !.adapter = "gmail", !.pc = "get", !.ids = ids, !.n = 1]
    /\ UNCHANGED <<archive, notProvider>>

\* The body fetchUnreadGmail extracts from a payload: the text/plain part
\* if the payload has parts, else the payload's own body.
GmailBody(payload) ==
    IF payload.hasParts
    THEN IF \E i \in 1..Len(payload.parts) : payload.parts[i].mimeType = "text/plain"
         THEN LET i == CHOOSE k \in 1..Len(payload.parts) :
                           /\ payload.parts[k].mimeType = "text/plain"
                           /\ \A j \in 1..(k - 1) : payload.parts[j].mimeType # "text/plain"
              IN IF payload.parts[i].data # <<>> THEN Base64ToString(payload.parts[i].data)
                 ELSE <<>>
         ELSE <<>>
    ELSE IF payload.data # <<>> THEN Base64ToString(payload.data) ELSE <<>>

\* messages.get of message n settled: a rejection or a message without
\* payload reach the catch block; else the message is decoded, filtered
\* and pushed, and the next one is fetched or the emails are returned.
fetchUnreadGmailGet(resp) ==
    /\ fetch.pc = "get"
    /\ IF resp.kind \in {"error", "malformed"}
       THEN fetch' = FetchEnded("gmail", fetchUnreadCatch(fetch.emails), TRUE,
                                fetch.emails, fetch.verdicts)
       ELSE LET headers == resp.payload.headers
                bod == GmailBody(resp.payload)
                marketing == isMarketingEmail(headers, bod)
                email == [messageId |-> fetch.ids[fetch.n],
                          from |-> HeaderValue(headers, "From", <<"U", "n", "k", "n", "o", "w", "n">>),
                          subject |-> HeaderValue(headers, "Subject", <<"N", "o", " ", "S", "u", "b", "j", "e", "c", "t">>),
                          date |-> HeaderValue(headers, "Date", <<>>),
                          body |-> bod,
                          accountEmail |-> ProviderAccount.email]
                emails == IF marketing THEN fetch.emails ELSE Append(fetch.emails, email)
                verdicts == Append(fetch.verdicts,
                                   [adapter |-> "gmail",
                                    from |-> HeaderValue(headers, "From", <<>>),
                                    listed |-> \E i \in 1..Len(headers) :
                                                   headers[i].name = "List-Unsubscribe",
                                    marketing |-> IF marketing THEN "true" ELSE "false"])
            IN fetch' =
                 IF fetch.n < Len(fetch.ids)
                 THEN [fetch EXCEPT !.n = @ + 1, !.emails = emails, !.verdicts = verdicts]
                 ELSE FetchEnded("gmail", [threw |-> FALSE, ret |-> emails], FALSE,
                                 emails, verdicts)
    /\ UNCHANGED <<archive, notProvider>>

\* The catch block of archiveOutlook and of archiveGmail.
archiveCatch == [threw |-> FALSE, ret |-> FALSE]

\* A call of archive that ended in `settled`.
ArchiveEnded(adapter, settled, folders, requests) ==
    [adapter |-> adapter, pc |-> IF settled.threw THEN "thrown" ELSE "returned",
     folders |-> folders, requests |-> requests, ret |-> settled.ret]

\* A find whose callback holds of every folder.
archiveFolderFirst(folders) == IF folders = <<>> THEN 0 ELSE 1

\* folders.find(f => f.displayName === 'Archive'): the position of the
\* folder found, 0 for undefined.
archiveFolder(folders) ==
    IF \E i \in 1..Len(folders) : folders[i].displayName = "Archive"
    THEN CHOOSE i \in 1..Len(folders) :
             /\ folders[i].displayName = "Archive"
             /\ \A j \in 1..(i - 1) : folders[j].displayName # "Archive"
    ELSE 0

\* archiveOutlook(account, messageId) is called and runs up to its await of
\* the listing of the folders.  Like fetchUnreadOutlook it is not among the
\* module's exports.
archiveOutlookCall ==
    /\ archive.pc = "idle"
    /\ archive' = [NoArchive EXCEPT !.adapter = "outlook", !.pc = "awaits folders",
                                    !.requests = <<[name |-> "mailFolders",
                                                    destinationId |-> "",
                                                    outcome |-> "pending"]>>]
    /\ UNCHANGED <<fetch, notProvider>>

\* The listing of the folders settled: without an Archive folder the
\* function returns false, with one it posts the move.
archiveOutlookFolders(resp) ==
    /\ archive.pc = "awaits folders"
    /\ LET folders == IF resp.kind = "folders" THEN resp.value ELSE <<>>
           listing == [name |-> "mailFolders", destinationId |-> "",
                       outcome |-> IF resp.kind = "error" THEN "error" ELSE "ok"]
       IN archive' =
            CASE resp.kind \in {"error", "malformed"} ->
                     ArchiveEnded("outlook", archiveCatch, <<>>, <<listing>>)
              [] resp.kind \notin {"error", "malformed"} /\ archiveFolder(folders) = 0 ->
                     ArchiveEnded("outlook", [threw |-> FALSE, ret |-> FALSE], folders,
                                  <<listing>>)
              [] OTHER ->
                     [adapter |-> "outlook", pc |-> "move", folders |-> folders,
                      requests |-> <<listing,
                                     [name |-> "move",
                                      destinationId |-> folders[archiveFolder(folders)].id,
                                      outcome |-> "pending"]>>,
                      ret |-> FALSE]
    /\ UNCHANGED <<fetch, notProvider>>

\* The move settled.
archiveOutlookMove(outcome) ==
    /\ archive.pc = "move"
    /\ LET requests == [archive.requests EXCEPT ![Len(archive.requests)].outcome = outcome]
       IN archive' =
            IF outcome = "ok"
            THEN ArchiveEnded("outlook", [threw |-> FALSE, ret |-> TRUE], archive.folders,
                              requests)
            ELSE ArchiveEnded("outlook", archiveCatch, archive.folders, requests)
    /\ UNCHANGED <<fetch, notProvider>>

\* archiveGmail(account, messageId, ...) is called and runs up to its await
\* of messages.modify.
archiveGmailCall ==
    /\ archive.pc = "idle"
    /\ archive' = [NoArchive EXCEPT !.adapter = "gmail", !.pc = "awaits modify",
                                    !.requests = <<[name |-> "modify",
                                                    destinationId |-> "",
                                                    outcome |-> "pending"]>>]
    /\ UNCHANGED <<fetch, notProvider>>

\* messages.modify settled.
archiveGmail(outcome) ==
    /\ archive.pc = "awaits modify"
    /\ LET requests == <<[name |-> "modify", destinationId |-> "", outcome |-> outcome]>>
       IN archive' =
            IF outcome = "ok"
            THEN ArchiveEnded("gmail", [threw |-> FALSE, ret |-> TRUE], <<>>, requests)
            ELSE ArchiveEnded("gmail", archiveCatch, <<>>, requests)
    /\ UNCHANGED <<fetch, notProvider>>

ProviderIdle ==
    /\ fetch = NoFetch
    /\ archive = NoArchive

ProviderInit == ProviderIdle

ProviderNext ==
    \/ fetchUnreadOutlookCall
    \/ fetchUnreadGmailCall
    \/ archiveOutlookCall
    \/ archiveGmailCall
    \/ \E resp \in OutlookResponses : fetchUnreadOutlook(resp)
    \/ \E outcome \in {"error", "malformed", "none", "messages"}, ids \in GmailListings :
           fetchUnreadGmailList(outcome, ids)
    \/ \E resp \in GmailResponses : fetchUnreadGmailGet(resp)
    \/ \E resp \in FolderResponses : archiveOutlookFolders(resp)
    \/ \E outcome \in {"ok", "error"} : archiveOutlookMove(outcome)
    \/ \E outcome \in {"ok", "error"} : archiveGmail(outcome)

-----------------------------------------------------------------------------
(* Specifications: one per component, the other components idle *)

InitRouter == RouterInit /\ KeyIdle /\ CacheIdle /\ ServerIdle /\ ProviderIdle /\ RequestsIdle
SpecRouter == InitRouter /\ [][RouterNext]_vars

InitKey == KeyInit /\ RouterIdle /\ CacheIdle /\ ServerIdle /\ ProviderIdle /\ RequestsIdle
SpecKey == InitKey /\ [][KeyNext]_vars

InitCache == CacheInit /\ RouterIdle /\ KeyIdle /\ ServerIdle /\ ProviderIdle /\ RequestsIdle
SpecCache == InitCache /\ [][CacheNext]_vars

\* The event loop runs whatever is ready, and reads, writes and the timer
\* complete: some step is taken as long as one is possible.
SpecSweep == InitCache /\ [][SweepNext]_vars /\ WF_vars(SweepNext)

InitServer == ServerInit /\ RouterIdle /\ KeyIdle /\ CacheIdle /\ ProviderIdle /\ RequestsIdle
SpecServer == InitServer /\ [][ServerNext]_vars

InitOrchestrator == OrchestratorInit /\ RequestsIdle /\ RouterIdle /\ KeyIdle /\ CacheIdle /\ ProviderIdle
SpecOrchestrator == InitOrchestrator /\ [][OrchestratorNext]_vars

InitProvider == ProviderInit /\ RouterIdle /\ KeyIdle /\ CacheIdle /\ ServerIdle /\ RequestsIdle
SpecProvider == InitProvider /\ [][ProviderNext]_vars

InitRequests == ServerInit /\ RequestsIdle /\ RouterIdle /\ KeyIdle /\ CacheIdle /\ ProviderIdle
SpecRequests == InitRequests /\ [][RequestsNext]_vars

-----------------------------------------------------------------------------
(* Properties of the router *)

Tiers(cs) == [i \in 1..Len(cs) |-> cs[i].tier]
SummaryFields == {"summary_bullets", "action_items", "urgency"}

\* The triggers as the specification lists them: a long body, three
\* question marks over subject and body, a complex keyword, five bullet
\* lines or five numbered lines.
RuleTriggers ==
    \/ Len(body) > 1500
    \/ questionCount(subject) + questionCount(body) >= 3
    \/ LET text == toLowerCase(subject \o <<" ">> \o body)
       IN  \E kw \in complexKeywords : includes(text, kw)
    \/ bulletCount(body) >= 5
    \/ numberCount(body) >= 5

\* C2 (router precedence): when a rule triggers for (subject, body), the
\* mini tier is never called, the mid tier is called exactly once after the
\* check, and the call returns a result tagged used_mid_tier = true,
\* escalation_reason = 'rules_based'.
RouterPrecedence ==
    RuleTriggers =>
        /\ rpc \in {"start", "awaitMidRules", "returned"}
        /\ \A i \in 1..Len(calls) : calls[i].tier # "mini"
        /\ rpc # "start" => Tiers(calls) = <<"mid">>
        /\ rpc = "returned" =>
              /\ result["used_mid_tier"] = "true"
              /\ result["escalation_reason"] = "'rules_based'"

RouterPrecedenceWitness ==
    /\ rpc = "returned"
    /\ RuleTriggers
    /\ Len(body) <= 1500
    /\ Tiers(calls) = <<"mid">>

\* C3 (model-requested escalation): when no rule triggers and the mini
\* result has needs_mid_tier = true, the mid tier is called after the mini
\* tier and the call returns the mid result's summary fields tagged
\* used_mid_tier = true, escalation_reason = 'model_requested', with
\* model_reason the mini result's why.
ModelRequestedEscalation ==
    (/\ rpc \notin {"start", "awaitMini", "thrown"}
     /\ Get(miniResult, "needs_mid_tier") = "true"
     /\ ~RuleTriggers) =>
        /\ rpc \in {"awaitMidModel", "returned"}
        /\ Tiers(calls) = <<"mini", "mid">>
        /\ rpc = "returned" =>
              /\ result["used_mid_tier"] = "true"
              /\ result["escalation_reason"] = "'model_requested'"
              /\ result["model_reason"] = Get(miniResult, "why")
              /\ \A f \in SummaryFields :
                    /\ f \in DOMAIN result <=> f \in DOMAIN midResult.fields
                    /\ f \in DOMAIN result => result[f] = midResult.fields[f]

ModelRequestedEscalationWitness ==
    /\ rpc = "returned"
    /\ Get(miniResult, "needs_mid_tier") = "true"
    /\ Get(miniResult, "why") = "'complex'"
    /\ ~RuleTriggers
    /\ midResult.type = "object"
    /\ midResult # Fallback
    /\ midResult # miniResult

\* C4 (fallback absorption): a call of the remote model that fails with a
\* transport error resolves to the fixed fallback object; when it is the
\* mini call, summarizeEmail returns that fallback without calling the mid
\* tier; and a call of summarizeEmail that met a transport error never
\* raises.
FallbackAbsorption ==
    /\ \A i \in 1..Len(outcomes) :
          outcomes[i] = "transport_error" =>
              /\ (IF calls[i].tier = "mini" THEN miniResult ELSE midResult) = Fallback
              /\ rpc # "thrown"
    /\ (Len(outcomes) >= 1 /\ calls[1].tier = "mini" /\ outcomes[1] = "transport_error") =>
          /\ rpc = "returned"
          /\ Tiers(calls) = <<"mini">>
          /\ result = Assign(Fallback.fields, MiniTags)

FallbackAbsorptionWitness ==
    /\ rpc = "returned"
    /\ Tiers(calls) = <<"mini">>
    /\ outcomes = <<"transport_error">>
    /\ result["urgency"] = "'low'"

\* The mini call has settled: miniResult is what callMini resolved with.
MiniSettled == Len(outcomes) >= 1 /\ calls[1].tier = "mini"

\* C14 (mini sufficient): when no rule triggers and the mini result does
\* not have needs_mid_tier = true, summarizeEmail returns the mini result's
\* fields tagged used_mid_tier = false, escalation_reason = null, and the
\* mid tier is never called.
MiniSufficient ==
    (/\ ~RuleTriggers
     /\ MiniSettled
     /\ Get(miniResult, "needs_mid_tier") # "true") =>
        /\ rpc = "returned"
        /\ Tiers(calls) = <<"mini">>
        /\ result["used_mid_tier"] = "false"
        /\ result["escalation_reason"] = "null"
        /\ \A f \in SummaryFields :
              /\ f \in DOMAIN result <=> f \in DOMAIN miniResult.fields
              /\ f \in DOMAIN result => result[f] = miniResult.fields[f]

\* An object with the fields of the prompt's contract: the three summary
\* fields, urgency one of low, med, high, and a boolean needs_mid_tier.
Conformant(v) ==
    /\ v.type = "object"
    /\ SummaryFields \cup {"needs_mid_tier"} \subseteq DOMAIN v.fields
    /\ v.fields["urgency"] \in {"'low'", "'med'", "'high'"}
    /\ v.fields["needs_mid_tier"] \in {"true", "false"}

\* C15 (malformed responses fall back): whatever the remote model answers,
\* each of callMini and callMid resolves with a contract-conformant object
\* or with the fallback object, and summarizeEmail never raises.
MalformedResponsesFallBack ==
    /\ rpc # "thrown"
    /\ \A i \in 1..Len(outcomes) :
          LET v == IF calls[i].tier = "mini" THEN miniResult ELSE midResult
          IN Conformant(v) \/ v = Fallback

\* C22 (call budget and tags): a call of summarizeEmail makes at most one
\* mini call and at most one mid call, the mini call first, and a returned
\* result has used_mid_tier true exactly if the mid tier was called, and
\* then escalation_reason 'rules_based' or 'model_requested', else null.
CallBudget ==
    /\ Tiers(calls) \in {<<>>, <<"mini">>, <<"mid">>, <<"mini", "mid">>}
    /\ (rpc = "returned" /\ calls # <<>>) =>
          LET mid == \E i \in 1..Len(calls) : calls[i].tier = "mid"
          IN /\ result["used_mid_tier"] = (IF mid THEN "true" ELSE "false")
             /\ mid <=> result["escalation_reason"] \in {"'rules_based'", "'model_requested'"}
             /\ ~mid => result["escalation_reason"] = "null"

\* A call returned after the mini tier alone, with a mini result that
\* carried tags of its own.
CallBudgetWitness ==
    /\ rpc = "returned"
    /\ Tiers(calls) = <<"mini">>
    /\ "used_mid_tier" \in DOMAIN Spread(miniResult)

-----------------------------------------------------------------------------
(* Properties of the cache key *)

KeysReturned == keyArgs # <<>> /\ keyOut[1] # "none" /\ keyOut[2] # "none"
IsFingerprint(fp) == Len(fp) = 16 /\ \A i \in 1..16 : \E d \in 1..16 : HexDigits[d] = fp[i]
KeyPrefix(t) == t[1] \o <<":">> \o t[2] \o <<":">>

\* C8 as stated: two triples that differ in one component, whichever it is,
\* have different keys.
KeyChangesWithAnyComponent ==
    KeysReturned /\ keyArgs[1] # keyArgs[2] => keyOut[1] # keyOut[2]

\* C8, amended: the key of a triple is provider:messageId: followed by 16
\* hex digits, the same on every call for the same triple; triples that
\* differ only in the provider or only in the message id have different
\* keys; triples that differ only in the body have the same key when the
\* bodies have the same UTF-8 encoding, and the sample bodies with different
\* encodings have different keys.
KeyDeterminism ==
    KeysReturned =>
        /\ \A i \in 1..2 :
              /\ Len(keyOut[i]) = Len(KeyPrefix(keyArgs[i])) + 16
              /\ SubSeq(keyOut[i], 1, Len(KeyPrefix(keyArgs[i]))) = KeyPrefix(keyArgs[i])
              /\ IsFingerprint(SubSeq(keyOut[i], Len(KeyPrefix(keyArgs[i])) + 1, Len(keyOut[i])))
        /\ keyArgs[1] = keyArgs[2] => keyOut[1] = keyOut[2]
        /\ Differing(keyArgs[1], keyArgs[2]) \in {{1}, {2}} => keyOut[1] # keyOut[2]
        /\ Differing(keyArgs[1], keyArgs[2]) = {3} =>
              (keyOut[1] = keyOut[2] <=> Utf8(keyArgs[1][3]) = Utf8(keyArgs[2][3]))

\* Two keys returned for triples whose bodies differ as texts and have the
\* same UTF-8 encoding.
KeyDeterminismWitness ==
    /\ KeysReturned
    /\ Differing(keyArgs[1], keyArgs[2]) = {3}
    /\ Utf8(keyArgs[1][3]) = Utf8(keyArgs[2][3])
    /\ keyOut[1] = keyOut[2]

-----------------------------------------------------------------------------
(* Properties of the cache *)

Quiescent == ops # <<>> /\ Settled = 1..Len(ops) /\ ~writer.locked

\* An entry cached at instant c is more than 30 days old at instant t.
OlderThan30Days(c, t) ==
    \/ t.day - c.day > 30
    \/ t.day - c.day = 30 /\ t.ms - c.ms > 0

\* initDB had returned before the first call of the cache's functions.
InitDBFirst == \A i \in 2..Len(ops) : 1 \in ops[i].seen

InFile(key) == ~file.null /\ file.summaries.has /\ key \in DOMAIN file.summaries.map
UserInFile(u) == ~file.null /\ file.lastOpen.has /\ u \in DOMAIN file.lastOpen.map

\* C5: once every call has returned and no write is in progress, the file
\* holds the entry of each setCached that returned, unless the entry was
\* more than 30 days old at some sweep, and the user of each setLastOpen
\* that returned.
NoLostUpdates ==
    InitDBFirst /\ Quiescent =>
        /\ \A i \in Kind("setCached") :
              ops[i].pc = "done" =>
                  \/ InFile(CacheKeys[ops[i].triple])
                  \/ \E j \in Kind("cleanOldCache") :
                        ops[j].at # 0 /\ OlderThan30Days(Clock[ops[i].at], Clock[ops[j].at])
        /\ \A i \in Kind("setLastOpen") : ops[i].pc = "done" => UserInFile(ops[i].user)

\* C6: a getCached called after a setCached of the same triple returned,
\* and not after another getCached of the triple called since, returns an
\* object with the properties of the summary, unless the entry is more
\* than 30 days old by now.
ReadYourWrites ==
    \A j \in Kind("getCached") : \A i \in Kind("setCached") \cap ops[j].seen :
        /\ ops[j].pc \in {"done", "thrown"}
        /\ ops[i].pc = "done"
        /\ ops[i].triple = ops[j].triple
        /\ ~\E k \in Kind("getCached") : k < j /\ i \in ops[k].seen /\ ops[k].triple = ops[j].triple
        /\ ~OlderThan30Days(Clock[ops[i].at], Clock[clock])
        => /\ ops[j].pc = "done"
           /\ ops[j].ret.type = "object"
           /\ \A f \in DOMAIN ops[i].summary.fields :
                 Get(ops[j].ret, f) = ops[i].summary.fields[f]

\* C9: the sweep that read the entries `before` at instant t leaves in
\* db.data the entries of `before` that are at most 30 days old at t, each
\* unchanged, and no other; the cachedAt of an entry reads back as the
\* instant setCached wrote; and the file holds what a sweep left when that
\* sweep ran with no other call in progress and was the last call.
SweepBoundary ==
    /\ \A i \in Kind("cleanOldCache") :
          ops[i].pc \in {"writing", "done"} =>
              LET b == ops[i].before.summaries.map
                  a == ops[i].after.summaries.map
                  t == Clock[ops[i].at]
              IN /\ DOMAIN a = {k \in DOMAIN b : ~OlderThan30Days(getTime(b[k].cachedAt), t)}
                 /\ \A k \in DOMAIN a : a[k] = b[k]
                 /\ (ops[i].pc = "done" /\ i = Len(ops) /\ ops[i].seen = 1..(i - 1)) =>
                        (file.summaries.has /\ file.summaries.map = a)
    /\ \A i \in Kind("setCached") :
          ops[i].pc \in {"writing", "done"} =>
              getTime(ops[i].after.summaries.map[CacheKeys[ops[i].triple]].cachedAt)
                  = Clock[ops[i].at]

\* A sweep that had an entry 30 days and a second old, which it removed,
\* and a younger one, which it left.
SweepBoundaryWitness ==
    \E i \in Kind("cleanOldCache") :
        /\ ops[i].pc = "done"
        /\ \E k \in DOMAIN ops[i].before.summaries.map :
              /\ Later(getTime(ops[i].before.summaries.map[k].cachedAt), 30, 1000)
                     = Clock[ops[i].at]
              /\ k \notin DOMAIN ops[i].after.summaries.map
        /\ DOMAIN ops[i].after.summaries.map # {}

\* Call i of a function of the given kind takes a step.
Steps(i, kind) == ops[i].kind = kind /\ ops'[i] # ops[i]

\* C16 (get never mutates state): no step of a getCached call, whatever
\* else is in flight, changes db.data or the stored document, summaries
\* and lastOpen alike.
GetNeverMutates ==
    [][(\E i \in 1..Len(ops) : Steps(i, "getCached")) => (dbData' = dbData /\ file' = file)]_vars

\* A sweep deleted the entry under key.
Swept(key) ==
    \E c \in Kind("cleanOldCache") :
        key \in DOMAIN ops[c].before.summaries.map \ DOMAIN ops[c].after.summaries.map

\* C17 (a body edit invalidates the cache): a getCached for a message
\* that begins after a setCached for the same message with another body
\* has returned, returns null unless its own triple was put; and the
\* entry of a setCached that has returned is stored as long as no sweep
\* has deleted it.
BodyEditInvalidates ==
    /\ \A g \in Kind("getCached"), s \in Kind("setCached") :
          (/\ ops[g].pc = "done"
           /\ ops[s].pc = "done"
           /\ s \in ops[g].seen
           /\ ops[g].triple[1] = ops[s].triple[1]
           /\ ops[g].triple[2] = ops[s].triple[2]
           /\ ops[g].triple[3] # ops[s].triple[3]
           /\ \A p \in Kind("setCached") : ops[p].triple # ops[g].triple) =>
              ops[g].ret.type = "null"
    /\ \A s \in Kind("setCached") :
          (ops[s].pc = "done" /\ ~Swept(CacheKeys[ops[s].triple])) =>
              InFile(CacheKeys[ops[s].triple])

\* The lastOpen value a document has for user u, as a set: empty if it
\* has none.
LastOpenOf(doc, u) ==
    IF ~doc.null /\ doc.lastOpen.has /\ u \in DOMAIN doc.lastOpen.map
    THEN {doc.lastOpen.map[u]} ELSE {}

\* C20 (lastOpen discipline): the stored lastOpen of a user changes only
\* when the write of a setLastOpen call for that user lands, to the value
\* that call set; no step of getCached, setCached, cleanOldCache or initDB
\* changes it.
LastOpenDiscipline ==
    [][\A u \in CacheUsers :
          LastOpenOf(file', u) # LastOpenOf(file, u) =>
              \E i \in Kind("setLastOpen") :
                  /\ ops[i].user = u
                  /\ ops[i].pc = "writing"
                  /\ LastOpenOf(file', u) = LastOpenOf(ops[i].after, u)]_vars

\* The file has under key an entry more than 30 days old now.
AgedInFile(key) ==
    /\ InFile(key)
    /\ OlderThan30Days(getTime(file.summaries.map[key].cachedAt), Clock[clock])

\* C19 (periodic eviction): with the timer firing, an entry of the file
\* that is more than 30 days old is eventually not in the file (the key
\* is absent or has a younger entry), whether or not any call of the
\* exported functions is made.
PeriodicEviction ==
    \A t \in CacheTriples : AgedInFile(CacheKeys[t]) ~> ~AgedInFile(CacheKeys[t])

\* A sweep of the timer, begun when initDB and the call of setCached had
\* settled, deleted an entry more than 30 days old, and the file no longer
\* has it.
PeriodicEvictionWitness ==
    \E i \in Kind("cleanOldCache") : \E k \in DOMAIN ops[i].before.summaries.map :
        /\ ops[i].pc = "done"
        /\ Kind("setCached") # {}
        /\ ops[i].seen = (1..Len(ops)) \ Kind("cleanOldCache")
        /\ OlderThan30Days(getTime(ops[i].before.summaries.map[k].cachedAt), Clock[ops[i].at])
        /\ k \notin DOMAIN ops[i].after.summaries.map
        /\ ~InFile(k)

\* The keys no file the process starts with holds and no call of
\* setCached has named.
NeverWritten(key) ==
    /\ \A f \in InitialFiles : key \notin DOMAIN f.summaries.map
    /\ \A j \in Kind("setCached") : CacheKeys[ops[j].triple] # key

\* C23 (store initialization): however the calls are ordered relative to
\* initDB, and whatever file the process starts with (none included), no
\* call of getCached or getLastOpen raises, getCached of a key never
\* written returns null, and getLastOpen of a user never set returns null.
StoreInitialized ==
    /\ \A i \in Kind("getCached") :
           /\ ops[i].pc # "thrown"
           /\ (ops[i].pc = "done" /\ NeverWritten(CacheKeys[ops[i].triple]))
                  => ops[i].ret = JsNull
    /\ \A i \in Kind("getLastOpen") :
           /\ ops[i].pc # "thrown"
           /\ (ops[i].pc = "done" /\ Kind("setLastOpen") = {}) => ops[i].ret = JsNull

-----------------------------------------------------------------------------
(* Properties of the scheduled check *)

\* Run r fetched message m and asked the model for its summary.
Invoked(r, m) ==
    \E k \in DOMAIN runs[r].tasks : runs[r].tasks[k].id = m /\ runs[r].tasks[k].pc \in {"post", "done"}

\* Run r has built the email of message m.
Processed(r, m) ==
    \E k \in DOMAIN runs[r].tasks : runs[r].tasks[k].id = m /\ runs[r].tasks[k].pc = "done"

\* The summary run r has for message m.
SummaryOf(r, m) ==
    LET k == CHOOSE k \in DOMAIN runs[r].tasks :
                 runs[r].tasks[k].id = m /\ runs[r].tasks[k].pc = "done"
    IN runs[r].tasks[k].summary

\* C1: when a run that began after another run ended processes a message
\* the earlier run processed, the message being unchanged, only one of the
\* two asked the model, and the two have the same summary.
Idempotence ==
    \A r2 \in 1..Len(runs) : \A r1 \in runs[r2].seen : \A m \in Messages :
        Processed(r1, m) /\ Processed(r2, m)
        => /\ ~(Invoked(r1, m) /\ Invoked(r2, m))
           /\ SummaryOf(r1, m) = SummaryOf(r2, m)

\* C7: of two runs in progress at the same time that process the same
\* message, at most one asks the model for that message.
NoDuplicateModelCalls ==
    \A r1 \in 1..Len(runs), r2 \in 1..Len(runs) : \A m \in Messages :
        r1 < r2 /\ r1 \notin runs[r2].seen => ~(Invoked(r1, m) /\ Invoked(r2, m))

GooglePositions(accounts) == {i \in 1..Len(accounts) : accounts[i].provider = "google"}

\* The fetches of run r for the user of the n-th list it gathered, in the
\* order in which they settled.
FetchesOf(r, n) ==
    SelectSeq(runs[r].fetched, LAMBDA f : f.user = runs[r].lists[n].user)

\* C10: no error leaves a run, and a run that has ended has gone through
\* the users of the Map in order; for each user it fetched every google
\* account, in order, and the list it gathered has no email of an account
\* whose fetch failed and, for each account whose fetch gave messages, one
\* email per message listed; the accounts after a failed one are fetched
\* all the same.
PartialFailureIsolation ==
    \A r \in 1..Len(runs) :
        /\ runs[r].pc = "ended" => Len(runs[r].lists) = runs[r].user
        /\ \A n \in 1..Len(runs[r].lists) :
              LET list == runs[r].lists[n]
                  all == list.emails
                  accounts == users[n].accounts
                  fetches == FetchesOf(r, n)
              IN /\ ~list.caught
                 /\ list.user = users[n].id
                 /\ {fetches[i].acc : i \in 1..Len(fetches)} = GooglePositions(accounts)
                 /\ \A i \in 1..Len(fetches), j \in 1..Len(fetches) :
                       i < j => fetches[i].acc < fetches[j].acc
                 /\ \A i \in 1..Len(fetches) :
                       LET mine == {p \in 1..Len(all) : all[p].account = fetches[i].account}
                       IN /\ fetches[i].account = accounts[fetches[i].acc].email
                          /\ IF fetches[i].outcome = "messages"
                             THEN /\ {all[p].id : p \in mine}
                                        = {fetches[i].ids[q] : q \in 1..Len(fetches[i].ids)}
                                  /\ Cardinality(mine) = Len(fetches[i].ids)
                             ELSE mine = {}
                 /\ \A p \in 1..Len(all) : \E i \in 1..Len(fetches) :
                       fetches[i].account = all[p].account

\* A run over a user with the accounts a@example.com and b@example.com has
\* ended: the fetch of the first failed after one of its messages had been
\* summarised, the fetch of the second gave its message, and the list
\* gathered for the user, which is stored, is that one email of the
\* second account.
PartialFailureIsolationWitness ==
    \E r \in 1..Len(runs) :
        /\ runs[r].pc = "ended"
        /\ Len(users[1].accounts) = 2
        /\ Len(FetchesOf(r, 1)) = 2
        /\ FetchesOf(r, 1)[1].outcome = "failed"
        /\ FetchesOf(r, 1)[1].account = "a@example.com"
        /\ \E k \in DOMAIN runs[r].tasks :
               k[1] = 1 /\ k[2] = 1 /\ runs[r].tasks[k].pc = "done"
        /\ FetchesOf(r, 1)[2].outcome = "messages"
        /\ FetchesOf(r, 1)[2].account = "b@example.com"
        /\ Len(runs[r].lists[1].emails) = 1
        /\ runs[r].lists[1].emails[1].id = "m4"
        /\ runs[r].lists[1].emails[1].account = "b@example.com"
        /\ emailCache["a@example.com"].emails = runs[r].lists[1].emails

\* The position of the account with this address in the accounts of the
\* user at position u, and of a message in a list of ids.
AccountPosition(u, email) ==
    CHOOSE i \in 1..Len(users[u].accounts) : users[u].accounts[i].email = email
ListPosition(ids, id) == CHOOSE j \in 1..Len(ids) : ids[j] = id

\* The ids the provider listed in run r for the account of this address.
ListedFor(r, n, email) ==
    LET f == CHOOSE f \in {FetchesOf(r, n)[i] : i \in 1..Len(FetchesOf(r, n))} :
                 f.account = email /\ f.outcome = "messages"
    IN f.ids

\* C18 (aggregation order): in the list a run gathers for a user, an email
\* of an earlier account comes before an email of a later account, and two
\* emails of one account come in the order in which the provider listed
\* their messages, whatever the order in which the per-message tasks were
\* completed.
AggregationOrder ==
    \A r \in 1..Len(runs) : \A n \in 1..Len(runs[r].lists) :
        LET all == runs[r].lists[n].emails
        IN \A n1 \in 1..Len(all), n2 \in 1..Len(all) :
              n1 < n2 =>
                  \/ AccountPosition(n, all[n1].account) < AccountPosition(n, all[n2].account)
                  \/ /\ all[n1].account = all[n2].account
                     /\ ListPosition(ListedFor(r, n, all[n1].account), all[n1].id)
                            < ListPosition(ListedFor(r, n, all[n2].account), all[n2].id)

\* A run that has ended gathered the emails m1, m2 in this order, stored
\* for the user, m2 having been completed before m1.
AggregationOrderWitness ==
    \E r \in 1..Len(runs) : \E n \in 1..Len(runs[r].lists) :
        /\ runs[r].pc = "ended"
        /\ [p \in 1..Len(runs[r].lists[n].emails) |-> runs[r].lists[n].emails[p].id]
               = <<"m1", "m2">>
        /\ emailCache[runs[r].lists[n].user].emails = runs[r].lists[n].emails
        /\ runs[r].tasks[<<n, 1, 2>>].nth < runs[r].tasks[<<n, 1, 1>>].nth

-----------------------------------------------------------------------------
(* Properties of the provider adapters *)

\* C11: fetchUnreadOutlook and fetchUnreadGmail never throw, and a call in
\* which the listing or the fetch of any message failed returns the empty
\* list, not the emails built before the failure.
FetchErrorContract ==
    /\ fetch.pc # "thrown"
    /\ fetch.caught => fetch.pc = "returned" /\ fetch.ret = <<>>

\* A call of fetchUnreadGmail had built an email when messages.get of a
\* later message failed, and returned.
FetchErrorContractWitness ==
    /\ fetch.adapter = "gmail"
    /\ fetch.pc = "returned"
    /\ fetch.caught
    /\ fetch.emails # <<>>

\* The archival request of a call: the move, or the label removal.
Archival(call) ==
    {i \in 1..Len(call.requests) : call.requests[i].name \in {"move", "modify"}}

\* C12: archiveOutlook and archiveGmail never throw; a call returns true
\* exactly if its archival request was issued and succeeded; and
\* archiveOutlook, given folders none of which is named Archive, issues no
\* move and returns false.
ArchiveContract ==
    /\ archive.pc # "thrown"
    /\ archive.pc = "returned" =>
           (archive.ret <=> \E i \in Archival(archive) : archive.requests[i].outcome = "ok")
    /\ archive.pc = "move" => ~archive.ret
    /\ (/\ archive.adapter = "outlook"
        /\ \A i \in 1..Len(archive.folders) : archive.folders[i].displayName # "Archive")
           => /\ Archival(archive) = {}
              /\ archive.pc = "returned" => ~archive.ret

\* archiveOutlook returned false for a mailbox that has folders, none of
\* them named Archive.
ArchiveContractWitness ==
    /\ archive.adapter = "outlook"
    /\ archive.pc = "returned"
    /\ archive.folders # <<>>
    /\ \A i \in 1..Len(archive.folders) : archive.folders[i].displayName # "Archive"
    /\ ~archive.ret

\* C13: every message the filter is called on whose sender contains
\* no-reply@example.com is classified as marketing, and so is every
\* message of the Gmail adapter that carries a List-Unsubscribe header.
MarketingFilter ==
    \A i \in 1..Len(fetch.verdicts) :
        LET v == fetch.verdicts[i]
        IN /\ includes(v.from, <<"n", "o", "-", "r", "e", "p", "l", "y", "@", "e", "x", "a", "m", "p", "l", "e", ".", "c", "o", "m">>) => v.marketing = "true"
           /\ (v.adapter = "gmail" /\ v.listed) => v.marketing = "true"

\* C21: every email fetchUnreadOutlook or fetchUnreadGmail returns has a
\* from, a subject and a body on which the keyword rule and the no-reply
\* rule of the filter are false: no keyword in the lower-cased text of the
\* three and no no-reply marker in the sender; and the plain text of the
\* body, its HTML tags stripped, contains none of the keywords.
NoMarketingLeaves ==
    fetch.pc = "returned" =>
        \A i \in 1..Len(fetch.ret) :
            LET e == fetch.ret[i]
                text == toLowerCase(e.from \o <<" ">> \o e.subject \o <<" ">> \o e.body)
            IN /\ \A kw \in marketingKeywords : ~includes(text, kw)
               /\ \A marker \in {<<"n", "o", "r", "e", "p", "l", "y">>, <<"n", "o", "-", "r", "e", "p", "l", "y">>, <<"d", "o", "n", "o", "t", "r", "e", "p", "l", "y">>} : ~includes(e.from, marker)
               /\ \A kw \in marketingKeywords :
                      ~includes(toLowerCase(plainBody(e.body)), kw)

-----------------------------------------------------------------------------
(* Properties of emailCache under the scheduled check and the routes *)

\* The lists the runs gather in the step for the user of this address.
GatheredFor(id) ==
    {list \in UNION {{runs'[r].lists[n] :
                          n \in (IF r <= Len(runs) THEN Len(runs[r].lists) ELSE 0) + 1
                                    ..Len(runs'[r].lists)} : r \in 1..Len(runs')} :
         list.user = id}

\* C24: a run of checkAllUsersEmails that is done with a user having
\* gathered at least one email leaves its list as the user's emailCache
\* entry; a run that gathered none, and every other step of a run, leaves
\* the user's entry as it was, and with it the emails GET /api/emails
\* answers.
EmptyCheckKeepsCache ==
    [][ \A id \in UserIds :
            /\ \A list \in GatheredFor(id) :
                  IF Len(list.emails) > 0 /\ ~list.caught
                  THEN emailCache'[id] = [has |-> TRUE, emails |-> list.emails]
                  ELSE /\ emailCache'[id] = emailCache[id]
                       /\ getEmails(emailCache', id) = getEmails(emailCache, id)
            /\ GatheredFor(id) = {} => emailCache'[id] = emailCache[id] ]_vars

\* A run that began after an earlier run had stored its list for a user
\* ended with the user's fetch failed and nothing gathered, and the stored
\* list is still served.
EmptyCheckKeepsCacheWitness ==
    \E r \in 1..Len(runs) : \E n \in 1..Len(runs[r].lists) :
        LET id == runs[r].lists[n].user IN
        /\ runs[r].pc = "ended"
        /\ runs[r].lists[n].emails = <<>>
        /\ \E i \in 1..Len(runs[r].fetched) :
              runs[r].fetched[i].user = id /\ runs[r].fetched[i].outcome = "failed"
        /\ \E q \in runs[r].seen : \E p \in 1..Len(runs[q].lists) :
              runs[q].lists[p].user = id /\ getEmails(emailCache, id) = runs[q].lists[p].emails
        /\ getEmails(emailCache, id) # <<>>

\* The emails of a list.
Listed(emails) == {emails[n] : n \in 1..Len(emails)}

\* The addresses of the accounts linked to the user at position u.
LinkedAddresses(u) == {users[u].accounts[i].email : i \in 1..Len(users[u].accounts)}

\* C25: when a delete request is answered, emailCache holds every email,
\* not named in the request, of a list a scheduled check stored for the
\* user while the request was awaiting the provider (and whose account is
\* still linked).
DeleteKeepsNewList ==
    [][ \A d \in 1..Len(deletes) :
            (deletes[d].pc = "trash" /\ deletes'[d].pc = "done") =>
                \A g \in Gathered \ deletes[d].seen :
                    LET list == runs[g[1]].lists[g[2]] IN
                    list.user = users[deletes[d].user].id =>
                        \A e \in Listed(list.emails) :
                            (e.id \notin deletes[d].emailIds
                             /\ e.account \in LinkedAddresses(deletes[d].user))
                                => e \in Listed(getEmails(emailCache', list.user)) ]_vars

\* C26: every email of a user's emailCache entry belongs to an account
\* that is linked to the user: none belongs to an account
\* POST /api/accounts/remove has removed, also once a check that was in
\* flight at the removal has ended.
LinkedAccountInvariant ==
    \A u \in 1..Len(users) :
        \A e \in Listed(getEmails(emailCache, users[u].id)) : e.account \in LinkedAddresses(u)

=============================================================================
